---- MODULE Spec2Model ----
(***************************************************************************)
(* Beaverdam: the selection/filter engine (DataTableCore), the Dash         *)
(* callback that drives it, and the metadata source (MongoDbDatabase) whose *)
(* query builds the table.                                                 *)
(*                                                                         *)
(* A table is a sequence of rows; a row has a key (the dataframe index,    *)
(* the document's _id) and one cell per data column.  A cell is a scalar,  *)
(* a list of scalars, or None.  The selectionState column is kept apart    *)
(* from the data columns as a sequence of booleans of the same length.     *)
(* filter_criteria is a Python dict: a function from a finite set of keys  *)
(* to value lists.  Its keys are the data columns, the pseudo-field        *)
(* row_index and a name that is no column of the table.  Where it matters  *)
(* which dict and which lists these are (a caller that keeps the dict it   *)
(* passed, or the one it was given), heap holds the objects by address.    *)
(***************************************************************************)
EXTENDS Integers, Sequences, FiniteSets, TLC

VARIABLES
    df,                 \* DataTableCore.df without its selectionState column
    selectionState,     \* DataTableCore.df["selectionState"], one flag per row
    filter_criteria,    \* DataTableCore.filter_criteria
    last,               \* the call or event handled last:
                        \* [op, arg, exc, had, calls, session]
    fields,             \* MongoDbDatabase.fields: the (name, path) items, in dict order
    query_results,      \* the dataframe MongoDbDatabase.query builds and returns
    call,               \* the running or last query: [pc, names, paths, docs, exc]
    lookup,             \* the last get_path / get_field_name: [op, form, fields, arg, exc, v]
    collection,         \* the documents of the database's collection, in insertion order
    builder,            \* BeaverDB.update_database: [pc, input_files, i, is_record_deleted,
                        \* n_records_modified, n_new_records, n_skipped_files, before,
                        \* again, runs]
    chip,               \* a chip of the criteria display: [pc, name, value, info, out]
    sessions,           \* the browser sessions the dashboard serves
    threads,            \* the callbacks the server is running, one per thread:
                        \* [pc, ev, calls, pass, is_row_selected]
    ui_elements,        \* the contents of the presenter's elements and the chips:
                        \* [table, figure, checklists, items, chips]
    returned,           \* what the last read operation of the engine returned
    heap                \* the dict and list objects behind the criteria, and who
                        \* refers to them: [dicts, lists, self, arg, got]

vars ==
    <<df, selectionState, filter_criteria, last, fields, query_results, call, lookup,
      collection, builder, chip, sessions, threads, ui_elements, returned, heap>>

\* The variables of the metadata source.
dbvars == <<fields, query_results, call, lookup>>

\* The variables of the dashboard.
uivars == <<chip, sessions, threads, ui_elements, returned>>

\* The objects a caller of the engine shares with it.
refvars == <<heap>>

\* The collection and the builder that fills it.
buildvars == <<collection, builder>>

\* The variables of the table engine.
tablevars == <<df, selectionState, filter_criteria, last>>

----------------------------------------------------------------------------
(* Bounds of the model *)

\* rows of a table
MaxRows == 3
\* entries of one value list of the criteria
MaxLen == 2
\* documents one query's cursor yields
MaxDocs == 2
\* browser sessions the dashboard serves at a time
MaxSessions == 2
\* callbacks the server runs at a time
MaxThreads == 2
\* metadata files in the directory of the builder
MaxFiles == 2
\* runs of update_database
MaxRuns == 2

----------------------------------------------------------------------------
(* Cells, rows and tables *)

Scalar(v) == [kind |-> "scalar", v |-> <<v>>]
List(s)   == [kind |-> "list", v |-> s]
None      == [kind |-> "none", v |-> <<>>]

\* The data columns of the table.  One of them carries the name of the
\* pseudo-field, to tell the row key from a column of that name.
Columns == {"genre", "tags", "row_index"}

\* A field name that is no column of the table (a stale name).
StaleField == "mood"

Row(id, genre, tags, ref) ==
    [id |-> id, cells |-> [genre |-> genre, tags |-> tags, row_index |-> ref]]

\* The documents the tables are cut from, in query order.
MasterTable ==
    << Row("d1", Scalar("jazz"), List(<<"a", "b">>), Scalar("d2")),
       Row("d2", Scalar("rock"), List(<<"b", "c">>), Scalar("d3")),
       Row("d3", Scalar("jazz"), List(<<>>),         Scalar("d1")),
       Row("d4", None,           Scalar("d"),        None) >>

\* Every run of at most MaxRows consecutive documents, the empty table included.
Tables ==
    { SubSeq(MasterTable, w[1], w[1] + w[2] - 1) :
        w \in { v \in (1..Len(MasterTable)) \X (0..MaxRows) :
                    v[1] + v[2] - 1 <= Len(MasterTable) } }

RowIds(t) == { t[i].id : i \in 1..Len(t) }

----------------------------------------------------------------------------
(* Value lists and criteria dicts handed to the engine *)

\* The values a caller offers for a key, in the order a checklist shows them.
Options(k) ==
    CASE k = "genre"     -> <<"jazz", "rock">>
      [] k = "tags"      -> <<"b", "c", "d">>
      [] k = "row_index" -> <<"d2", "d3">>
      [] OTHER           -> <<"blue">>

\* Value lists of at most MaxLen entries: the runs of consecutive options.
ValueLists(k) ==
    { SubSeq(Options(k), w[1], w[1] + w[2] - 1) :
        w \in { v \in (1..Len(Options(k))) \X (0..MaxLen) :
                    v[1] + v[2] - 1 <= Len(Options(k)) } }

Keys == Columns \cup {StaleField}

EmptyDict == [k \in {} |-> <<>>]

\* A dict with the single entry k: v.
Dict1(k, v) == [x \in {k} |-> v]

\* Dicts with one entry.
Singles == UNION { { Dict1(k, v) : v \in ValueLists(k) } : k \in Keys }

\* Dicts with two entries: a criterion on genre and a second key.
Pairs ==
    UNION { { Dict1("genre", <<"jazz">>) @@ Dict1(k, v) : v \in ValueLists(k) } :
                k \in {"tags", "row_index"} }

\* Arguments of update_filter.
Deltas == Singles \cup Pairs

\* Arguments of set_filter.
SetArgs == {EmptyDict} \cup Pairs \cup { Dict1(StaleField, v) : v \in ValueLists(StaleField) }

Range(s) == { s[i] : i \in 1..Len(s) }

----------------------------------------------------------------------------
(* Documents, paths and the field dict of the metadata source *)

\* A value of a document is a node [kind, tok, kids]: a dict (kids: its items,
\* key and value), a list (kids: its elements, each under the empty key), a
\* str (tok: its characters), an int or a bool (tok: its text), or None.  NaN
\* is the content of a dataframe cell no value was assigned to.  Keys, path
\* segments and strings are sequences of one-character strings.
DictNode(items) == [kind |-> "dict", tok |-> <<>>, kids |-> items]
ListNode(elems) ==
    [kind |-> "list", tok |-> <<>>, kids |-> [i \in 1..Len(elems) |-> <<<<>>, elems[i]>>]]
StrNode(chars)  == [kind |-> "str", tok |-> chars, kids |-> <<>>]
IntNode(chars)  == [kind |-> "int", tok |-> chars, kids |-> <<>>]
BoolNode(chars) == [kind |-> "bool", tok |-> chars, kids |-> <<>>]
NoneNode        == [kind |-> "none", tok |-> <<>>, kids |-> <<>>]
NaN             == [kind |-> "nan", tok |-> <<>>, kids |-> <<>>]

\* A document of the collection: its _id and the rest of its items.
Doc(id, items) == [id |-> id, tree |-> DictNode(items)]

\* {"a": {"b": [{"c": 1}, {"c": 2}]}, "g": "jazz", "n": 7, "t": ["x", "y"]}
TreeOne ==
    << <<<<"a">>, DictNode(<< <<<<"b">>,
            ListNode(<< DictNode(<< <<<<"c">>, IntNode(<<"1">>)>> >>),
                        DictNode(<< <<<<"c">>, IntNode(<<"2">>)>> >>) >>)>> >>)>>,
       <<<<"g">>, StrNode(<<"j", "a", "z", "z">>)>>,
       <<<<"n">>, IntNode(<<"7">>)>>,
       <<<<"t">>, ListNode(<< StrNode(<<"x">>), StrNode(<<"y">>) >>)>> >>

\* {"a": {"b": []}, "g": "rock", "n": true}
TreeTwo ==
    << <<<<"a">>, DictNode(<< <<<<"b">>, ListNode(<<>>)>> >>)>>,
       <<<<"g">>, StrNode(<<"r", "o", "c", "k">>)>>,
       <<<<"n">>, BoolNode(<<"T">>)>> >>

\* {"g": "", "t": ["z"]}
TreeThree ==
    << <<<<"g">>, StrNode(<<>>)>>,
       <<<<"t">>, ListNode(<< StrNode(<<"z">>) >>)>> >>

\* The documents a cursor may yield; d1 comes in two versions.
Docs ==
    { Doc("d1", TreeOne), Doc("d1", TreeTwo), Doc("d2", TreeTwo), Doc("d3", TreeThree) }

\* Paths, as the strings of the config file.
Path_a_b_0_c  == <<"a", ".", "b", ".", "0", ".", "c">>
Path_a_b_9_c  == <<"a", ".", "b", ".", "9", ".", "c">>
Path_a_b_m1_c == <<"a", ".", "b", ".", "-", "1", ".", "c">>
Path_a_b_x    == <<"a", ".", "b", ".", "x">>
Path_a_z_0    == <<"a", ".", "z", ".", "0">>
Path_g        == <<"g">>
Path_g_0      == <<"g", ".", "0">>
Path_g_x      == <<"g", ".", "x">>
Path_n_0      == <<"n", ".", "0">>
Path_t        == <<"t">>
Path_t_1      == <<"t", ".", "1">>

\* The field dicts set_fields is called with: (name, path) items in dict order.
FieldDicts ==
    { << <<"n1", Path_a_b_0_c>>, <<"n2", Path_a_b_9_c>>, <<"n3", Path_a_b_m1_c>> >>,
      << <<"n1", Path_g>>, <<"n2", Path_t>>, <<"n3", Path_g>> >>,
      << <<"n1", Path_g_0>>, <<"n2", Path_n_0>> >>,
      << <<"n1", Path_a_b_x>>, <<"n2", Path_a_z_0>>, <<"n3", Path_t_1>> >>,
      << <<"n1", Path_t>>, <<"n2", Path_g_x>> >> }

\* The names a caller may ask for; the last is in no field dict.
AskedNames == <<"n1", "n2", "n3", "n4">>

\* The lists of names query is called with: the runs of consecutive names, the
\* empty list included.
NameLists ==
    { SubSeq(AskedNames, w[1], w[1] + w[2] - 1) :
        w \in { v \in (1..Len(AskedNames)) \X (0..Len(AskedNames)) :
                    v[1] + v[2] - 1 <= Len(AskedNames) } }

\* A path no field dict holds.
Path_z == <<"z">>

\* The paths a caller may ask a name for.
AskedPaths == <<Path_g, Path_z, Path_t, Path_a_b_0_c>>

\* The lists of paths get_field_name is called with: the runs of consecutive
\* paths, the empty list included.
PathLists ==
    { SubSeq(AskedPaths, w[1], w[1] + w[2] - 1) :
        w \in { v \in (1..Len(AskedPaths)) \X (0..Len(AskedPaths)) :
                    v[1] + v[2] - 1 <= Len(AskedPaths) } }

----------------------------------------------------------------------------
(* MongoDbDatabase: get_path, get_field_name and query *)

\* str.split("."): the segments between the dots, empty ones included.
split(path) ==
    LET F[n \in 0..Len(path)] ==
            IF n = 0 THEN << <<>> >>
            ELSE IF path[n] = "."
                 THEN Append(F[n - 1], <<>>)
                 ELSE [F[n - 1] EXCEPT ![Len(F[n - 1])] = Append(@, path[n])]
    IN  F[Len(path)]

Digits == <<"0", "1", "2", "3", "4", "5", "6", "7", "8", "9">>

DigitValue(c) == (CHOOSE i \in 1..Len(Digits) : Digits[i] = c) - 1

\* int(ikey): an optional sign and at least one digit, else ValueError.
int(ikey) ==
    LET signed == Len(ikey) > 0 /\ ikey[1] \in {"-", "+"}
        body   == IF signed THEN Tail(ikey) ELSE ikey
        ok     == Len(body) > 0 /\ \A i \in 1..Len(body) : body[i] \in Range(Digits)
        M[n \in 0..Len(body)] ==
            IF n = 0 THEN 0 ELSE 10 * M[n - 1] + DigitValue(body[n])
    IN  IF ~ok THEN [exc |-> "ValueError", v |-> 0]
        ELSE [exc |-> "none", v |-> IF ikey[1] = "-" THEN 0 - M[Len(body)] ELSE M[Len(body)]]

\* The outcome of a subscript: the value, or the exception raised.
Got(node) == [exc |-> "none", v |-> node]
Raised(exc) == [exc |-> exc, v |-> NoneNode]

\* proj_val[ikey] for the str ikey: the item of a dict; any other value has no
\* str subscript.
getitem_str(proj_val, ikey) ==
    IF proj_val.kind = "dict"
    THEN LET hits == { i \in 1..Len(proj_val.kids) : proj_val.kids[i][1] = ikey }
         IN  IF hits = {} THEN Raised("KeyError")
             ELSE Got(proj_val.kids[CHOOSE i \in hits : TRUE][2])
    ELSE Raised("TypeError")

\* proj_val[n] for the int n: the element of a list or the character of a str,
\* counted from the end for n < 0; a dict has no int key; any other value has
\* no subscript.
getitem_int(proj_val, n) ==
    LET len == IF proj_val.kind = "list" THEN Len(proj_val.kids) ELSE Len(proj_val.tok)
        pos == IF n < 0 THEN len + n + 1 ELSE n + 1
    IN  CASE proj_val.kind = "list" ->
                IF pos \in 1..len THEN Got(proj_val.kids[pos][2]) ELSE Raised("IndexError")
          [] proj_val.kind = "str" ->
                IF pos \in 1..len THEN Got(StrNode(<<proj_val.tok[pos]>>))
                ELSE Raised("IndexError")
          [] proj_val.kind = "dict" -> Raised("KeyError")
          [] OTHER -> Raised("TypeError")

\* As step, without the second try: a segment that is no key gives None.
step_keyonly(proj_val, ikey) ==
    LET first == getitem_str(proj_val, ikey)
    IN  IF first.exc = "none" THEN first.v ELSE NoneNode

\* One turn of the loop over the segments: try the segment as it is, then as an
\* int, then give None.
step(proj_val, ikey) ==
    LET first == getitem_str(proj_val, ikey)
        n     == int(ikey)
    IN  IF first.exc = "none" THEN first.v
        ELSE IF n.exc # "none" THEN NoneNode
        ELSE getitem_int(proj_val, n.v).v

\* The value query finds in a document's items for a projection path.
extract(tree, proj_path) ==
    LET segs == split(proj_path)
        W[n \in 0..Len(segs)] == IF n = 0 THEN tree ELSE step(W[n - 1], segs[n])
    IN  W[Len(segs)]

\* The names of a field dict: list(self.fields.keys()).
FieldNames(fd) == [i \in 1..Len(fd) |-> fd[i][1]]

\* s without the entries that occurred before, as the keys of
\* {ipath: 1 for ipath in output_paths}.
dict_keys(s) ==
    LET F[n \in 0..Len(s)] ==
            IF n = 0 THEN <<>>
            ELSE IF s[n] \in Range(F[n - 1]) THEN F[n - 1] ELSE Append(F[n - 1], s[n])
    IN  F[Len(s)]

\* get_path for a list of names: self.fields[i_name] for each; KeyError for a
\* name that is no key of the dict.
get_path(fd, requested_field_names) ==
    IF \E i \in 1..Len(requested_field_names) :
            requested_field_names[i] \notin Range(FieldNames(fd))
    THEN [exc |-> "KeyError", v |-> <<>>]
    ELSE [exc |-> "none",
          v |-> [i \in 1..Len(requested_field_names) |->
                    fd[CHOOSE j \in 1..Len(fd) : fd[j][1] = requested_field_names[i]][2]]]

\* get_field_name for a list of paths: every name of the dict whose path is in
\* the list, in dict order.
get_field_names(fd, requested_paths) ==
    LET F[n \in 0..Len(fd)] ==
            IF n = 0 THEN <<>>
            ELSE IF fd[n][2] \in Range(requested_paths)
                 THEN Append(F[n - 1], fd[n][1]) ELSE F[n - 1]
    IN  F[Len(fd)]

\* get_path for one name: self.fields[name]; KeyError for a name that is no key
\* of the dict.
get_path_str(fd, requested_field_name) ==
    IF requested_field_name \notin Range(FieldNames(fd))
    THEN [exc |-> "KeyError", v |-> <<>>]
    ELSE [exc |-> "none",
          v |-> fd[CHOOSE j \in 1..Len(fd) : fd[j][1] = requested_field_name][2]]

\* As get_field_name, with the last name of the path instead of the first.
get_field_name_last(fd, requested_path) ==
    LET hits == { j \in 1..Len(fd) : fd[j][2] = requested_path }
    IN  IF hits = {} THEN [exc |-> "IndexError", v |-> ""]
        ELSE [exc |-> "none", v |-> fd[CHOOSE j \in hits : \A k \in hits : j >= k][1]]

\* get_field_name for one path: element [0] of the names of the dict with that
\* path, in dict order; IndexError where no name has it.
get_field_name(fd, requested_path) ==
    LET hits == { j \in 1..Len(fd) : fd[j][2] = requested_path }
    IN  IF hits = {} THEN [exc |-> "IndexError", v |-> ""]
        ELSE [exc |-> "none", v |-> fd[CHOOSE j \in hits : \A k \in hits : j <= k][1]]

\* pd.DataFrame(columns=..., dtype=object): no rows yet.
DataFrame(columns) == [columns |-> columns, rows |-> <<>>]

\* As loc, with a cell of an existing row written only where the new value is
\* not None.
loc_notnone(t, label, column, value) ==
    IF \E i \in 1..Len(t.rows) : t.rows[i].id = label
    THEN [t EXCEPT !.rows =
            [i \in 1..Len(t.rows) |->
                IF t.rows[i].id = label /\ value # NoneNode
                THEN [t.rows[i] EXCEPT !.cells[column] = value]
                ELSE t.rows[i]]]
    ELSE [t EXCEPT !.rows =
            Append(@, [id |-> label,
                       cells |-> [c \in Range(t.columns) |->
                                    IF c = column THEN value ELSE NaN]])]

\* query_results.loc[label, column] = value: the cell of the row with that label
\* is overwritten; a new label gets a new last row, NaN in its other cells.
loc(t, label, column, value) ==
    IF \E i \in 1..Len(t.rows) : t.rows[i].id = label
    THEN [t EXCEPT !.rows =
            [i \in 1..Len(t.rows) |->
                IF t.rows[i].id = label
                THEN [t.rows[i] EXCEPT !.cells[column] = value]
                ELSE t.rows[i]]]
    ELSE [t EXCEPT !.rows =
            Append(@, [id |-> label,
                       cells |-> [c \in Range(t.columns) |->
                                    IF c = column THEN value ELSE NaN]])]

\* The body of "for doc in cursor": one cell per projection path.
for_doc(fd, paths, t, doc) ==
    LET W[n \in 0..Len(paths)] ==
            IF n = 0 THEN t
            ELSE loc(W[n - 1], doc.id, get_field_name(fd, paths[n]).v,
                     extract(doc.tree, paths[n]))
    IN  W[Len(paths)]

\* The dataframe after the loop has run over the documents docs.
for_cursor(fd, paths, docs) ==
    LET W[n \in 0..Len(docs)] ==
            IF n = 0 THEN DataFrame(get_field_names(fd, paths))
            ELSE for_doc(fd, paths, W[n - 1], docs[n])
    IN  W[Len(docs)]

----------------------------------------------------------------------------
(* The criterion codec of the chips: encode_criterion_info and               *)
(* decode_criterion_info                                                     *)

\* A criterion value: a str (s: its characters), an int (n), a float (the
\* decimal n / 10^e, with no trailing zero in its e decimals), a bool (n: 1 for
\* True), None, or a list of str (items).
StrValue(chars)   == [kind |-> "str", s |-> chars, n |-> 0, e |-> 0, items |-> <<>>]
IntValue(n)       == [kind |-> "int", s |-> <<>>, n |-> n, e |-> 0, items |-> <<>>]
FloatValue(n, e)  == [kind |-> "float", s |-> <<>>, n |-> n, e |-> e, items |-> <<>>]
BoolValue(b)      == [kind |-> "bool", s |-> <<>>, n |-> IF b THEN 1 ELSE 0, e |-> 0,
                      items |-> <<>>]
NoneValue         == [kind |-> "NoneType", s |-> <<>>, n |-> 0, e |-> 0, items |-> <<>>]
ListValue(items)  == [kind |-> "list", s |-> <<>>, n |-> 0, e |-> 0, items |-> items]

\* The criterion names of the chips: a plain one, and names that hold the
\* separator or a key word of the encoding.
CriterionNames ==
    { <<"g">>,
      <<"a", "_", "_", "b">>,
      <<"V", "A", "L", "U", "E">>,
      <<"T", "Y", "P", "E">>,
      <<"C", "R", "I", "T", "E", "R", "I", "O", "N">>,
      <<"a", "_", "_", "T", "Y", "P", "E", "=", "s", "t", "r">> }

\* The criterion values of the chips.
CriterionValues ==
    { StrValue(<<"j", "a", "z", "z">>),
      StrValue(<<>>),
      StrValue(<<"x", "_", "_", "y">>),
      StrValue(<<"V", "A", "L", "U", "E">>),
      StrValue(<<"T", "Y", "P", "E">>),
      StrValue(<<"C", "R", "I", "T", "E", "R", "I", "O", "N">>),
      StrValue(<<"7">>),
      StrValue(<<"t", "r", "u", "e">>) }
    \cup { IntValue(0), IntValue(7), IntValue(0 - 12), IntValue(120) }
    \cup { FloatValue(1, 0), FloatValue(5, 1), FloatValue(0 - 225, 2) }
    \cup { BoolValue(TRUE), BoolValue(FALSE), NoneValue }
    \cup { ListValue(<< <<"a">>, <<"b">> >>), ListValue(<< <<"_", "_", "T", "Y", "P", "E", "=", "s", "t", "r", "_", "_">> >>) }

\* sep occurs in s at position i.
StartsAt(s, sep, i) ==
    /\ i + Len(sep) - 1 <= Len(s)
    /\ \A k \in 1..Len(sep) : s[i + k - 1] = sep[k]

\* sub in s
contains(sub, s) == \E i \in 1..(Len(s) + 1) : StartsAt(s, sub, i)

\* s.split(sep) for a non-empty sep: the pieces between the occurrences of sep,
\* found from the left and not overlapping.
str_split(s, sep) ==
    LET Cut[i \in 1..Len(s)] ==
            /\ StartsAt(s, sep, i)
            /\ \A j \in (i - Len(sep) + 1)..(i - 1) : j >= 1 => ~Cut[j]
        cuts   == { i \in 1..Len(s) : Cut[i] }
        nth(k) == CHOOSE c \in cuts : Cardinality({ d \in cuts : d < c }) = k - 1
        n      == Cardinality(cuts)
    IN  [k \in 1..(n + 1) |->
            SubSeq(s, IF k = 1 THEN 1 ELSE nth(k - 1) + Len(sep),
                      IF k = n + 1 THEN Len(s) ELSE nth(k) - 1)]

\* The decimal digits of n >= 0.
Decimal(n) ==
    LET F[k \in 0..n] ==
            IF k < 10 THEN <<Digits[k + 1]>>
            ELSE Append(F[k \div 10], Digits[(k % 10) + 1])
    IN  F[n]

Abs(n) == IF n < 0 THEN 0 - n ELSE n

Sign(n) == IF n < 0 THEN <<"-">> ELSE <<>>

\* s with zeros put before it up to the length len.
ZeroFill(s, len) == [i \in 1..(len - Len(s)) |-> "0"] \o s

\* str(x) for the float n / 10^e: the digits, a point, and at least one decimal.
str_float(n, e) ==
    IF e = 0 THEN Sign(n) \o Decimal(Abs(n)) \o <<".", "0">>
    ELSE LET digits == IF Len(Decimal(Abs(n))) > e THEN Decimal(Abs(n))
                       ELSE ZeroFill(Decimal(Abs(n)), e + 1)
         IN  Sign(n) \o SubSeq(digits, 1, Len(digits) - e) \o <<".">>
                 \o SubSeq(digits, Len(digits) - e + 1, Len(digits))

\* str(x) for a list of str: the items in single quotes, between brackets.
str_list(items) ==
    LET F[k \in 0..Len(items)] ==
            IF k = 0 THEN <<"[">>
            ELSE F[k - 1] \o (IF k > 1 THEN <<",", " ">> ELSE <<>>)
                     \o <<"'">> \o items[k] \o <<"'">>
    IN  F[Len(items)] \o <<"]">>

\* value_to_label: a bool becomes the str "True" or "False"; a str, an int, a
\* float and None stay as they are; anything else becomes its str().
value_to_label(x) ==
    CASE x.kind = "bool" -> StrValue(IF x.n = 1 THEN <<"T", "r", "u", "e">> ELSE <<"F", "a", "l", "s", "e">>)
      [] x.kind = "list" -> StrValue(str_list(x.items))
      [] OTHER -> x

\* str(x)
str(x) ==
    CASE x.kind = "str" -> x.s
      [] x.kind = "int" -> Sign(x.n) \o Decimal(Abs(x.n))
      [] x.kind = "float" -> str_float(x.n, x.e)
      [] x.kind = "bool" -> IF x.n = 1 THEN <<"T", "r", "u", "e">> ELSE <<"F", "a", "l", "s", "e">>
      [] x.kind = "NoneType" -> <<"N", "o", "n", "e">>
      [] x.kind = "list" -> str_list(x.items)

\* type(x).__name__
type_name(x) ==
    CASE x.kind = "str" -> <<"s", "t", "r">>
      [] x.kind = "int" -> <<"i", "n", "t">>
      [] x.kind = "float" -> <<"f", "l", "o", "a", "t">>
      [] x.kind = "bool" -> <<"b", "o", "o", "l">>
      [] x.kind = "NoneType" -> <<"N", "o", "n", "e", "T", "y", "p", "e">>
      [] x.kind = "list" -> <<"l", "i", "s", "t">>

encode_criterion_info(criterion_name, criterion_value) ==
    <<"C", "R", "I", "T", "E", "R", "I", "O", "N", "=">>
        \o criterion_name
        \o <<"_", "_", "V", "A", "L", "U", "E", "=">>
        \o str(value_to_label(criterion_value))
        \o <<"_", "_", "T", "Y", "P", "E", "=">>
        \o type_name(criterion_value)

Uppercase ==
    <<"A", "B", "C", "D", "E", "F", "G", "H", "I", "J", "K", "L", "M",
      "N", "O", "P", "Q", "R", "S", "T", "U", "V", "W", "X", "Y", "Z">>
Lowercase ==
    <<"a", "b", "c", "d", "e", "f", "g", "h", "i", "j", "k", "l", "m",
      "n", "o", "p", "q", "r", "s", "t", "u", "v", "w", "x", "y", "z">>

\* s.lower()
lower(s) ==
    [i \in 1..Len(s) |->
        IF s[i] \in Range(Uppercase)
        THEN Lowercase[CHOOSE k \in 1..Len(Uppercase) : Uppercase[k] = s[i]]
        ELSE s[i]]

\* float(s) for an optional sign, digits, and optionally a point and digits:
\* the decimal without its trailing zeros; ValueError for any other text the
\* chips of the model hold.
float(s) ==
    LET signed == Len(s) > 0 /\ s[1] \in {"-", "+"}
        body   == IF signed THEN Tail(s) ELSE s
        pieces == str_split(body, <<".">>)
        whole  == pieces[1]
        frac   == IF Len(pieces) = 2 THEN pieces[2] ELSE <<>>
        ok     == /\ Len(pieces) <= 2
                  /\ Len(whole) + Len(frac) > 0
                  /\ \A i \in 1..Len(whole) : whole[i] \in Range(Digits)
                  /\ \A i \in 1..Len(frac) : frac[i] \in Range(Digits)
        kept   == IF \E i \in 1..Len(frac) : frac[i] # "0"
                  THEN CHOOSE k \in 1..Len(frac) :
                          frac[k] # "0" /\ \A j \in (k + 1)..Len(frac) : frac[j] = "0"
                  ELSE 0
        M[k \in 0..(Len(whole) + kept)] ==
            IF k = 0 THEN 0
            ELSE 10 * M[k - 1] + DigitValue((whole \o frac)[k])
    IN  IF ~ok THEN [exc |-> "ValueError", n |-> 0, e |-> 0]
        ELSE [exc |-> "none",
              n |-> IF s[1] = "-" THEN 0 - M[Len(whole) + kept] ELSE M[Len(whole) + kept],
              e |-> kept]

\* The outcome of decode_criterion_info: the pair returned, or the exception.
Decoded(criterion_name, criterion_value) ==
    [exc |-> "none", criterion_name |-> criterion_name,
     criterion_value |-> criterion_value]
DecodeRaised(exc) ==
    [exc |-> exc, criterion_name |-> <<>>, criterion_value |-> NoneValue]

\* get_value: of the first component that holds key_name, the piece after the
\* first key_name= ; IndexError where there is no such component or piece.
get_value(string_components, key_name) ==
    LET inds == { ind \in 1..Len(string_components) :
                    contains(key_name, string_components[ind]) }
    IN  IF inds = {} THEN [exc |-> "IndexError", v |-> <<>>]
        ELSE LET first  == CHOOSE ind \in inds : \A k \in inds : ind <= k
                 pieces == str_split(string_components[first], key_name \o <<"=">>)
             IN  IF Len(pieces) < 2 THEN [exc |-> "IndexError", v |-> <<>>]
                 ELSE [exc |-> "none", v |-> pieces[2]]

decode_criterion_info(criterion_info) ==
    LET string_components   == str_split(criterion_info, <<"_", "_">>)
        criterion_name      == get_value(string_components, <<"C", "R", "I", "T", "E", "R", "I", "O", "N">>)
        criterion_str_value == get_value(string_components, <<"V", "A", "L", "U", "E">>)
        criterion_type      == get_value(string_components, <<"T", "Y", "P", "E">>)
    IN  IF criterion_name.exc # "none" THEN DecodeRaised(criterion_name.exc)
        ELSE IF criterion_str_value.exc # "none"
             THEN DecodeRaised(criterion_str_value.exc)
        ELSE IF criterion_type.exc # "none" THEN DecodeRaised(criterion_type.exc)
        ELSE CASE criterion_type.v = <<"s", "t", "r">> ->
                    Decoded(criterion_name.v, StrValue(criterion_str_value.v))
               [] criterion_type.v = <<"i", "n", "t">> ->
                    IF int(criterion_str_value.v).exc # "none"
                    THEN DecodeRaised("ValueError")
                    ELSE Decoded(criterion_name.v, IntValue(int(criterion_str_value.v).v))
               [] criterion_type.v = <<"f", "l", "o", "a", "t">> ->
                    IF float(criterion_str_value.v).exc # "none"
                    THEN DecodeRaised("ValueError")
                    ELSE Decoded(criterion_name.v,
                                 FloatValue(float(criterion_str_value.v).n,
                                            float(criterion_str_value.v).e))
               [] criterion_type.v = <<"b", "o", "o", "l">> ->
                    IF lower(criterion_str_value.v) = <<"t", "r", "u", "e">>
                    THEN Decoded(criterion_name.v, BoolValue(TRUE))
                    ELSE IF lower(criterion_str_value.v) = <<"f", "a", "l", "s", "e">>
                    THEN Decoded(criterion_name.v, BoolValue(FALSE))
                    ELSE DecodeRaised("ValueError")
               [] OTHER -> DecodeRaised("ValueError")

----------------------------------------------------------------------------
(* DataTableCore *)

\* x in criteria, for a scalar x and a list criteria
InList(x, criteria) == \E j \in 1..Len(criteria) : criteria[j] = x

\* As is_value_in_criteria, with a list cell held to all(...) instead of any(...).
is_value_in_criteria_all(x, criteria) ==
    IF x.kind = "list"
    THEN \A i \in 1..Len(x.v) : InList(x.v[i], criteria)
    ELSE IF x.kind = "none"
         THEN FALSE
         ELSE InList(x.v[1], criteria)

\* As is_value_in_criteria, without the branch for None: the missing value is
\* held to be contained in any list.
is_value_in_criteria_none(x, criteria) ==
    IF x.kind = "list"
    THEN \E i \in 1..Len(x.v) : InList(x.v[i], criteria)
    ELSE IF x.kind = "none"
         THEN TRUE
         ELSE InList(x.v[1], criteria)

is_value_in_criteria(x, criteria) ==
    IF x.kind = "list"
    THEN \E i \in 1..Len(x.v) : InList(x.v[i], criteria)
    ELSE IF x.kind = "none"
         THEN FALSE
         ELSE InList(x.v[1], criteria)

\* The engine as a value: the criteria dict, the selectionState column and the
\* exception the running call has raised ("none" while it has not).
Engine(fc, sel, exc) == [fc |-> fc, sel |-> sel, exc |-> exc]

\* As is_criterion_met, without the branch for "row_index": the key is looked up
\* as a column like any other.
is_criterion_met_column(fc, iCriteria, row) ==
    is_value_in_criteria(row.cells[iCriteria], fc[iCriteria])

\* is_criterion_met for one criterion with a non-empty value list, row by row
is_criterion_met(fc, iCriteria, row) ==
    IF iCriteria = "row_index"
    THEN InList(row.id, fc["row_index"])
    ELSE is_value_in_criteria(row.cells[iCriteria], fc[iCriteria])

\* self.df[iCriteria] raises KeyError for a key that is no column
RaisesKeyError(fc) ==
    \E k \in DOMAIN fc :
        Len(fc[k]) > 0 /\ k # "row_index" /\ k \notin Columns

\* As apply_filter, with a key that is no column failing every row instead of
\* raising.
apply_filter_permissive(e) ==
    IF \A k \in DOMAIN e.fc : e.fc[k] = <<>>
    THEN [e EXCEPT !.sel = [i \in 1..Len(df) |-> TRUE]]
    ELSE [e EXCEPT !.sel =
             [i \in 1..Len(df) |->
                 \A k \in DOMAIN e.fc :
                     Len(e.fc[k]) > 0 =>
                         /\ k \in Columns \cup {"row_index"}
                         /\ is_criterion_met(e.fc, k, df[i])]]

\* As apply_filter, setting the flag of a row where the outcome of the criteria
\* differs from the flag the row had.
apply_filter_changed(e) ==
    IF \A k \in DOMAIN e.fc : e.fc[k] = <<>>
    THEN [e EXCEPT !.sel = [i \in 1..Len(df) |-> TRUE]]
    ELSE IF RaisesKeyError(e.fc)
         THEN [e EXCEPT !.exc = "KeyError"]
         ELSE [e EXCEPT !.sel =
                  [i \in 1..Len(df) |->
                      e.sel[i] #
                        (\A k \in DOMAIN e.fc :
                            Len(e.fc[k]) > 0 => is_criterion_met(e.fc, k, df[i]))]]

\* As apply_filter, without the test len(iVal) > 0: a key with an empty list is
\* evaluated like any other once some list is not empty.
apply_filter_nolen(e) ==
    IF \A k \in DOMAIN e.fc : e.fc[k] = <<>>
    THEN [e EXCEPT !.sel = [i \in 1..Len(df) |-> TRUE]]
    ELSE IF \E k \in DOMAIN e.fc : k # "row_index" /\ k \notin Columns
         THEN [e EXCEPT !.exc = "KeyError"]
         ELSE [e EXCEPT !.sel =
                  [i \in 1..Len(df) |->
                      \A k \in DOMAIN e.fc : is_criterion_met(e.fc, k, df[i])]]

\* As apply_filter, accepting a row that meets any one criterion.
apply_filter_any(e) ==
    IF \A k \in DOMAIN e.fc : e.fc[k] = <<>>
    THEN [e EXCEPT !.sel = [i \in 1..Len(df) |-> TRUE]]
    ELSE IF RaisesKeyError(e.fc)
         THEN [e EXCEPT !.exc = "KeyError"]
         ELSE [e EXCEPT !.sel =
                  [i \in 1..Len(df) |->
                      \E k \in DOMAIN e.fc :
                          Len(e.fc[k]) > 0 /\ is_criterion_met(e.fc, k, df[i])]]

apply_filter(e) ==
    IF \A k \in DOMAIN e.fc : e.fc[k] = <<>>
    THEN [e EXCEPT !.sel = [i \in 1..Len(df) |-> TRUE]]
    ELSE IF RaisesKeyError(e.fc)
         THEN [e EXCEPT !.exc = "KeyError"]
         ELSE [e EXCEPT !.sel =
                  [i \in 1..Len(df) |->
                      \A k \in DOMAIN e.fc :
                          Len(e.fc[k]) > 0 => is_criterion_met(e.fc, k, df[i])]]

\* As set_filter, keeping the earlier entries the argument does not name.
set_filter_keep(e, criteria) ==
    apply_filter([e EXCEPT !.fc = criteria @@ e.fc])

set_filter(e, criteria) ==
    apply_filter([e EXCEPT !.fc = criteria])

\* As update_filter, appending the new values to the old list of a key.
update_filter_merge(e, new_filter_criteria) ==
    apply_filter([e EXCEPT !.fc =
        [k \in (DOMAIN e.fc) \cup (DOMAIN new_filter_criteria) |->
            IF k \in (DOMAIN e.fc) \cap (DOMAIN new_filter_criteria)
            THEN e.fc[k] \o new_filter_criteria[k]
            ELSE (new_filter_criteria @@ e.fc)[k]]])

\* As update_filter, dropping the earlier entries the argument does not name.
update_filter_only(e, new_filter_criteria) ==
    apply_filter([e EXCEPT !.fc = new_filter_criteria])

update_filter(e, new_filter_criteria) ==
    apply_filter([e EXCEPT !.fc = new_filter_criteria @@ e.fc])

\* As clear_filter, emptying every value list and keeping the keys.
clear_filter_blank(e) ==
    apply_filter([e EXCEPT !.fc = [k \in DOMAIN e.fc |-> <<>>]])

clear_filter(e) ==
    apply_filter([e EXCEPT !.fc = EmptyDict])

\* As select_rows, replacing the criteria by the row selection.
select_rows_replace(e, row_inds) ==
    LET r == set_filter(e, Dict1("row_index", row_inds))
    IN  IF r.exc = "none" THEN apply_filter(r) ELSE r

\* As select_rows, with an empty list of ids selecting no row.
select_rows_none(e, row_inds) ==
    LET r == update_filter(e, Dict1("row_index", row_inds))
    IN  IF r.exc # "none" THEN r
        ELSE IF row_inds = <<>>
        THEN [r EXCEPT !.sel = [i \in 1..Len(df) |-> FALSE]]
        ELSE apply_filter(r)

\* The second apply_filter runs only if update_filter has not raised.
select_rows(e, row_inds) ==
    LET r == update_filter(e, Dict1("row_index", row_inds))
    IN  IF r.exc = "none" THEN apply_filter(r) ELSE r

\* As undo_row_selection, without the call of apply_filter.
undo_row_selection_norecompute(e) ==
    [e EXCEPT !.fc = [k \in (DOMAIN e.fc) \ {"row_index"} |-> e.fc[k]]]

\* As undo_row_selection, dropping the entries with an empty list as well.
undo_row_selection_prune(e) ==
    apply_filter([e EXCEPT !.fc =
        [k \in { x \in (DOMAIN e.fc) \ {"row_index"} : e.fc[x] # <<>> } |-> e.fc[k]]])

undo_row_selection(e) ==
    apply_filter([e EXCEPT !.fc =
        [k \in (DOMAIN e.fc) \ {"row_index"} |-> e.fc[k]]])

\* As get_selected_rows, dropping the rows whose flag is set.
get_selected_rows_inverted(e) ==
    LET keep == { i \in 1..Len(df) : ~e.sel[i] }
        F[n \in 0..Len(df)] ==
            IF n = 0 THEN <<>>
            ELSE IF n \in keep THEN Append(F[n - 1], df[n]) ELSE F[n - 1]
    IN  F[Len(df)]

\* The visible rows: the rows whose flag is set, in table order, without the flag.
get_selected_rows(e) ==
    LET keep == { i \in 1..Len(df) : e.sel[i] }
        F[n \in 0..Len(df)] ==
            IF n = 0 THEN <<>>
            ELSE IF n \in keep THEN Append(F[n - 1], df[n]) ELSE F[n - 1]
    IN  F[Len(df)]

get_filter_criteria(e) == e.fc

\* The dataframe of the engine: its data columns and its selectionState column.
Frame(data, flags) == [data |-> data, flags |-> flags]

\* As setitem, with the rows that get False dropped from the dataframe.
setitem_drop(frame, name, values) ==
    LET F[n \in 0..Len(values)] ==
            IF n = 0 THEN <<>>
            ELSE IF values[n] THEN Append(F[n - 1], frame.data[n]) ELSE F[n - 1]
    IN  [data |-> F[Len(values)], flags |-> values]

\* self.df[name] = values: the column of that name takes the values, row by
\* row; the index and the other columns stay.
setitem(frame, name, values) ==
    IF name = "selectionState" THEN [frame EXCEPT !.flags = values]
    ELSE [frame EXCEPT !.data =
            [i \in 1..Len(frame.data) |->
                [frame.data[i] EXCEPT !.cells[name] = values[i]]]]

----------------------------------------------------------------------------
(* DashView.register_callbacks.filter_data: one UI event, one handler run *)

\* The fields the configured checklists stand for; each is a column.
ChecklistFields == {"genre", "tags"}

\* The field of the pie chart.
PieField == "genre"

Event(type, style, arg) == [type |-> type, style |-> style, arg |-> arg]

\* The words the dashboard shows on its chips: the criteria keys, the options
\* of the checklists and the label of the row selection.
Vocabulary ==
    ChecklistFields \cup {"row_index", "manual selection"}
        \cup UNION { Range(Options(f)) : f \in ChecklistFields }

\* The characters of a word.
Chars(w) ==
    CASE w = "genre" -> <<"g", "e", "n", "r", "e">>
      [] w = "tags" -> <<"t", "a", "g", "s">>
      [] w = "row_index" -> <<"r", "o", "w", "_", "i", "n", "d", "e", "x">>
      [] w = "jazz" -> <<"j", "a", "z", "z">>
      [] w = "rock" -> <<"r", "o", "c", "k">>
      [] w = "b" -> <<"b">>
      [] w = "c" -> <<"c">>
      [] w = "d" -> <<"d">>
      [] w = "manual selection" -> <<"m", "a", "n", "u", "a", "l", " ", "s", "e", "l", "e", "c", "t", "i", "o", "n">>

\* The word with these characters; "?" for a text that is no word of the
\* dashboard.
Text(chars) ==
    IF \E w \in Vocabulary : Chars(w) = chars
    THEN CHOOSE w \in Vocabulary : Chars(w) = chars
    ELSE "?"

\* The chips shown for the criteria, as (key, value) pairs: one for each value
\* of each value list, and the one chip "manual selection" for a non-empty
\* row_index list.
Chips(e) ==
    UNION { IF k = "row_index"
            THEN (IF e.fc[k] # <<>> THEN { <<k, "manual selection">> } ELSE {})
            ELSE { <<k, e.fc[k][i]>> : i \in 1..Len(e.fc[k]) } :
            k \in DOMAIN e.fc }

\* The value property of a chip.
ChipInfo(c) == encode_criterion_info(Chars(c[1]), StrValue(Chars(c[2])))

\* val.remove(x): val without its first x; ValueError where x is not in val.
list_remove(val, x) ==
    IF ~InList(x, val) THEN [exc |-> "ValueError", v |-> val]
    ELSE LET i == CHOOSE j \in 1..Len(val) :
                    val[j] = x /\ \A k \in 1..(j - 1) : val[k] # x
         IN  [exc |-> "none", v |-> SubSeq(val, 1, i - 1) \o SubSeq(val, i + 1, Len(val))]

\* A call the callback makes on the controller.
Trigger(op, arg) == [op |-> op, arg |-> arg]

\* What a branch of the callback does before its calls on the controller: the
\* engine as the branch leaves it, and the calls.
Branch(e, calls) == [e |-> e, calls |-> calls]

\* The rest of the branch for a clicked chip, from the decoded pair d: the new
\* criteria take [] for row_index, the engine's own list after val.remove
\* for the chip's key, and the engine's lists for the other keys.
strike(e, d) ==
    LET criterion_name  == Text(d.criterion_name)
        criterion_value == IF d.criterion_value.kind = "str"
                           THEN Text(d.criterion_value.s) ELSE "?"
        hit             == criterion_name \in (DOMAIN e.fc) \ {"row_index"}
        val             == list_remove(e.fc[criterion_name], criterion_value)
        removed         == [e EXCEPT !.fc[criterion_name] = val.v]
        kept            == IF hit THEN removed ELSE e
        new_filter_criteria ==
            [k \in DOMAIN e.fc |-> IF k = "row_index" THEN <<>> ELSE kept.fc[k]]
    IN  IF d.exc # "none" THEN Branch([e EXCEPT !.exc = d.exc], <<>>)
        ELSE IF hit /\ val.exc # "none" THEN Branch([e EXCEPT !.exc = val.exc], <<>>)
        ELSE Branch(kept, <<Trigger("update_filter", new_filter_criteria)>>)

\* The branch for a clicked chip: the value property of the chip is decoded
\* and the value struck.
remove_chip(e, criterion_info) == strike(e, decode_criterion_info(criterion_info))

\* As triggers, with a checklist change passed on as an update_filter alone.
triggers_single(e, ev) ==
    CASE ev.type = "ResetButton" ->
            Branch(e, <<Trigger("clear_filter", EmptyDict)>>)
      [] ev.type = "FilterChecklist" ->
            Branch(e, <<Trigger("update_filter", ev.arg)>>)
      [] ev.type = "DataFigure" /\ ev.style = "pie" ->
            Branch(e, <<Trigger("update_filter", ev.arg)>>)
      [] ev.type = "DataFigure" /\ ev.style = "scatter" ->
            Branch(e, <<Trigger("select_rows", ev.arg)>>)
      [] ev.type = "SelectedCriteria" ->
            remove_chip(e, ev.arg["value"])
      [] OTHER ->
            Branch(e, <<>>)

\* The calls the callback makes on the controller for the triggered element.
triggers(e, ev) ==
    CASE ev.type = "ResetButton" ->
            Branch(e, <<Trigger("clear_filter", EmptyDict)>>)
      [] ev.type = "FilterChecklist" ->
            Branch(e, <<Trigger("undo_row_selection", EmptyDict),
                        Trigger("update_filter", ev.arg)>>)
      [] ev.type = "DataFigure" /\ ev.style = "pie" ->
            Branch(e, <<Trigger("update_filter", ev.arg)>>)
      [] ev.type = "DataFigure" /\ ev.style = "scatter" ->
            Branch(e, <<Trigger("select_rows", ev.arg)>>)
      [] ev.type = "SelectedCriteria" ->
            remove_chip(e, ev.arg["value"])
      [] OTHER ->
            Branch(e, <<>>)

\* Controller: each trigger_* passes the call on to the data table of the core.
controller(e, t) ==
    CASE t.op = "clear_filter"       -> clear_filter(e)
      [] t.op = "update_filter"      -> update_filter(e, t.arg)
      [] t.op = "select_rows"        -> select_rows(e, t.arg["row_index"])
      [] t.op = "undo_row_selection" -> undo_row_selection(e)

\* The engine after the calls, one after the other; a call that raises ends
\* the callback.
RECURSIVE run(_, _)
run(e, calls) ==
    IF calls = <<>> \/ e.exc # "none" THEN e
    ELSE run(controller(e, Head(calls)), Tail(calls))

\* The names of the calls that were made: those up to the first that raised.
RECURSIVE made(_, _)
made(e, calls) ==
    IF calls = <<>> \/ e.exc # "none" THEN <<>>
    ELSE <<Head(calls).op>> \o made(controller(e, Head(calls)), Tail(calls))

\* The callback after a branch: the engine its calls leave, and the names of
\* the calls made.
finish(branch) ==
    [e |-> run(branch.e, branch.calls), calls |-> made(branch.e, branch.calls)]

\* A branch without its call of undo_row_selection.
without_undo(branch) ==
    Branch(branch.e, SelectSeq(branch.calls, LAMBDA t : t.op # "undo_row_selection"))

\* As filter_data, with a checklist change applied without undo_row_selection.
filter_data_noundo(e, ev) == finish(without_undo(triggers(e, ev)))

\* The callback for the triggered element: the engine it leaves and the
\* calls it made.
filter_data(e, ev) == finish(triggers(e, ev))

\* The labels a pie chart of the visible rows offers for a click.
PieLabels(e) ==
    { r.cells[PieField].v[1] :
        r \in { x \in Range(get_selected_rows(e)) : x.cells[PieField].kind = "scalar" } }

\* The points a scatter plot of the visible rows offers for a selection.
ScatterPoints(e) == RowIds(get_selected_rows(e))

----------------------------------------------------------------------------
(* The elements of the presenter, and what the engine is read for *)

\* The keys of a dict, in the order the model inserts them.
KeysOf(c) ==
    SelectSeq(<<"genre", "tags", "row_index", StaleField>>, LAMBDA k : k \in DOMAIN c)

\* df.drop(labels), inplace=False: a new frame without the rows of the labels.
drop(frame, labels) ==
    LET F[n \in 0..Len(frame.data)] ==
            IF n = 0 THEN Frame(<<>>, <<>>)
            ELSE IF frame.data[n].id \in labels THEN F[n - 1]
            ELSE Frame(Append(F[n - 1].data, frame.data[n]),
                       Append(F[n - 1].flags, frame.flags[n]))
    IN  F[Len(frame.data)]

\* The labels of the rows whose flag is False.
unselected(frame) ==
    { frame.data[i].id : i \in { j \in 1..Len(frame.data) : ~frame.flags[j] } }

\* As get_selected_rows, dropping the rows from self.df itself.
get_selected_rows_inplace(frame) ==
    [self |-> drop(frame, unselected(frame)),
     out  |-> drop(frame, unselected(frame)).data]

\* get_selected_rows as a reader of the frame: self is the frame of the
\* engine after the call, out the frame returned, its flag column dropped.
get_selected_rows_of(frame) ==
    [self |-> frame, out |-> drop(frame, unselected(frame)).data]

\* The values of every list of the criteria, in the order of the keys.
get_filter_criteria_values(fc) ==
    LET keys == KeysOf(fc)
        F[n \in 0..Len(keys)] ==
            IF n = 0 THEN <<>> ELSE F[n - 1] \o fc[keys[n]]
    IN  F[Len(keys)]

\* What a cell of the displayed table shows: a list of one item as the item,
\* an empty list as None.
parse_df_cell(dataframe_cell) ==
    IF dataframe_cell.kind = "list"
    THEN IF Len(dataframe_cell.v) < 1 THEN None
         ELSE IF Len(dataframe_cell.v) = 1 THEN Scalar(dataframe_cell.v[1])
         ELSE dataframe_cell
    ELSE dataframe_cell

\* DataTable.update, from the rows get_selected_rows returned.
DataTable_update(rows) ==
    [i \in 1..Len(rows) |->
        [rows[i] EXCEPT !.cells =
            [c \in DOMAIN rows[i].cells |-> parse_df_cell(rows[i].cells[c])]]]

\* DataFigure.update, from the rows get_selected_rows returned: the columns
\* of the figure's field.
DataFigure_update(rows) ==
    [i \in 1..Len(rows) |-> rows[i].cells[PieField]]

\* As FilterChecklist.update, with every option selected where the field has
\* no entry.
FilterChecklist_update_all(fc, field) ==
    IF field \in DOMAIN fc THEN fc[field] ELSE Options(field)

\* FilterChecklist.update: a field without an entry raises KeyError, which the
\* except clause turns into no selected option.
FilterChecklist_update(fc, field) ==
    IF field \in DOMAIN fc THEN fc[field] ELSE <<>>

\* presenter.update() and the chips the callback builds after it: every
\* element is updated from the data table of the core.
presenter_update(frame, fc) ==
    [self |-> get_selected_rows_of(get_selected_rows_of(frame).self).self,
     out  |->
        [table      |-> DataTable_update(get_selected_rows_of(frame).out),
         figure     |-> DataFigure_update(
                            get_selected_rows_of(get_selected_rows_of(frame).self).out),
         checklists |-> [f \in ChecklistFields |-> FilterChecklist_update(fc, f)],
         items      |-> get_filter_criteria_values(fc),
         chips      |-> Chips(Engine(fc, <<>>, "none"))]]

----------------------------------------------------------------------------
(* The criteria as Python objects: dicts and lists by address *)

\* The address of a new object: the least that no live object has.
NewAddr(used) == CHOOSE a \in 1..(Cardinality(used) + 1) : a \notin used

\* The objects are not followed.
NoHeap == [dicts |-> <<>>, lists |-> <<>>, self |-> 0, arg |-> 0, got |-> 0]

\* The dict at the address a, read through: its keys and the elements of its
\* lists.
Value(h, a) == [k \in DOMAIN h.dicts[a] |-> h.lists[h.dicts[a][k]]]

\* The dicts a caller holds: the one it passed last and the one
\* get_filter_criteria gave it.
Held(h) == {h.arg, h.got} \ {0}

\* Objects nothing refers to any more are freed.
Collect(h) ==
    LET live == {h.self, h.arg, h.got} \ {0}
        used == UNION { { h.dicts[a][k] : k \in DOMAIN h.dicts[a] } : a \in live }
    IN  [h EXCEPT !.dicts = [a \in live |-> h.dicts[a]],
                  !.lists = [a \in used |-> h.lists[a]]]

\* A caller writes a dict display {k: [...], ...}: a new list for each key
\* and a new dict; the caller refers to it as arg, and lets go of the dict
\* it was given before.
dict_literal(h, c) ==
    LET ks == KeysOf(c)
        F[n \in 0..Len(ks)] ==
            IF n = 0 THEN [lists |-> h.lists, items |-> EmptyDict]
            ELSE LET a == NewAddr(DOMAIN F[n - 1].lists)
                 IN  [lists |-> F[n - 1].lists @@ (a :> c[ks[n]]),
                      items |-> F[n - 1].items @@ (ks[n] :> a)]
        d  == NewAddr(DOMAIN h.dicts)
    IN  [h EXCEPT !.lists = F[Len(ks)].lists,
                  !.dicts = h.dicts @@ (d :> F[Len(ks)].items),
                  !.arg = d, !.got = 0]

\* self.filter_criteria = filter_criteria: the engine refers to the dict it
\* was passed.
ref_set_filter(h) == [h EXCEPT !.self = h.arg]

\* self.filter_criteria[ikey] = new_filter_criteria[ikey], key by key: the
\* engine's dict takes the caller's lists themselves.
ref_update_filter(h) ==
    LET mine   == h.dicts[h.self]
        theirs == h.dicts[h.arg]
    IN  [h EXCEPT !.dicts[h.self] =
            [k \in DOMAIN mine \cup DOMAIN theirs |->
                IF k \in DOMAIN theirs THEN theirs[k] ELSE mine[k]]]

\* self.filter_criteria = {}: the engine refers to a new, empty dict.
ref_clear_filter(h) ==
    LET d == NewAddr(DOMAIN h.dicts)
    IN  [h EXCEPT !.dicts = h.dicts @@ (d :> EmptyDict), !.self = d]

\* self.update_filter({"row_index": row_inds}): a dict of the engine's own
\* around the caller's list; the caller keeps the dict it passed before.
ref_select_rows(h, row_inds) ==
    [ref_update_filter(dict_literal(h, Dict1("row_index", row_inds))) EXCEPT
        !.arg = h.arg, !.got = h.got]

\* del self.filter_criteria["row_index"], where the key is there.
ref_undo_row_selection(h) ==
    LET mine == h.dicts[h.self]
    IN  [h EXCEPT !.dicts[h.self] = [k \in DOMAIN mine \ {"row_index"} |-> mine[k]]]

\* return self.filter_criteria: the caller is given the engine's dict, and
\* lets go of the dict it passed before.
ref_get_filter_criteria(h) == [h EXCEPT !.got = h.self, !.arg = 0]

\* val.remove(x) on the list under the key k of the dict at a, in place.
ref_list_remove(h, a, k, x) ==
    [h EXCEPT !.lists[h.dicts[a][k]] = list_remove(@, x).v]

\* d[k] = [...] on the dict at a: a new list under the key k.
ref_dict_setitem(h, a, k, v) ==
    LET l == NewAddr(DOMAIN h.lists)
    IN  [h EXCEPT !.lists = h.lists @@ (l :> v),
                  !.dicts[a] = [x \in DOMAIN h.dicts[a] \cup {k} |->
                                    IF x = k THEN l ELSE h.dicts[a][x]]]

\* The dicts a caller of the engine passes.
AliasArgs ==
    { EmptyDict,
      Dict1("genre", <<"jazz", "rock">>),
      Dict1("genre", <<"jazz">>) @@ Dict1("row_index", <<"d2">>) }

\* The row keys a caller of the engine selects.
AliasRows == { <<"d2", "d3">> }

----------------------------------------------------------------------------
(* The engine of the current state, and the step that runs one call on it *)

Current == Engine(filter_criteria, selectionState, "none")

\* The field dict Core.__init__ hands to set_fields, from the config file.
ConfigFields == << <<"genre", Path_g>>, <<"tags", Path_t>> >>

\* No query has been made.
\* No get_path or get_field_name was called yet.
NoLookup ==
    [op |-> "none", form |-> "none", fields |-> <<>>, arg |-> <<>>, exc |-> "none",
     v |-> <<>>]

\* No call was made on the engine yet.
NoLast ==
    [op |-> "init", arg |-> EmptyDict, exc |-> "none", had |-> FALSE, calls |-> <<>>,
     session |-> 0]

\* No chip was built yet.
\* A builder that has not run.
NoBuilder ==
    [pc |-> "idle", input_files |-> <<>>, i |-> 1, is_record_deleted |-> 0,
     n_records_modified |-> 0, n_new_records |-> 0, n_skipped_files |-> 0,
     before |-> <<>>, again |-> FALSE, runs |-> 0]

\* A thread of the server that runs no callback.
Idle == [pc |-> "idle", ev |-> Event("", "", EmptyDict), calls |-> <<>>,
         pass |-> 1, is_row_selected |-> <<>>]

NoThreads == [t \in 1..MaxThreads |-> Idle]

NoChip ==
    [pc |-> "none", name |-> <<>>, value |-> NoneValue, info |-> <<>>,
     out |-> DecodeRaised("none")]

NoCall ==
    [pc |-> "idle", fields |-> <<>>, names |-> <<>>, paths |-> <<>>, docs |-> <<>>,
     exc |-> "none"]

\* Core.__init__: the table as queried, every flag set, then set_filter({}).
Init ==
    /\ df \in Tables
    /\ LET e == set_filter(Engine(EmptyDict, [i \in 1..Len(df) |-> TRUE], "none"),
                           EmptyDict)
       IN  /\ filter_criteria = e.fc
           /\ selectionState = e.sel
    /\ last = NoLast
    /\ fields = ConfigFields
    /\ query_results = DataFrame(<<>>)
    /\ call = NoCall
    /\ lookup = NoLookup
    /\ chip = NoChip
    /\ sessions = {1}
    /\ threads = NoThreads
    /\ ui_elements = presenter_update(Frame(df, selectionState), filter_criteria).out
    /\ returned = <<>>
    /\ collection = <<>>
    /\ builder = NoBuilder
    /\ heap = NoHeap

\* The dataframe after the last statement of apply_filter has put the flags
\* into its selectionState column.
Written(e) == setitem(Frame(df, selectionState), "selectionState", e.sel)

\* A row selection is in force.
Had == "row_index" \in DOMAIN filter_criteria /\ filter_criteria["row_index"] # <<>>

\* The state after a call: what it left in the engine, and a record of the call
\* (its name, its argument, the exception it ended in, and whether a row
\* selection was in force when it began).
Commit(e, op, arg) ==
    LET written == Written(e)
    IN  /\ filter_criteria' = e.fc
        /\ df' = written.data
        /\ selectionState' = written.flags
        /\ last' = [op |-> op, arg |-> arg, exc |-> e.exc, had |-> Had,
                    calls |-> <<op>>, session |-> 0]

SetFilter ==
    /\ \E c \in SetArgs : Commit(set_filter(Current, c), "set_filter", c)
    /\ UNCHANGED <<dbvars, uivars, refvars, buildvars>>

UpdateFilter ==
    /\ \E d \in Deltas : Commit(update_filter(Current, d), "update_filter", d)
    /\ UNCHANGED <<dbvars, uivars, refvars, buildvars>>

ClearFilter ==
    /\ Commit(clear_filter(Current), "clear_filter", EmptyDict)
    /\ UNCHANGED <<dbvars, uivars, refvars, buildvars>>

SelectRows ==
    /\ \E ids \in ValueLists("row_index") :
          Commit(select_rows(Current, ids), "select_rows", Dict1("row_index", ids))
    /\ UNCHANGED <<dbvars, uivars, refvars, buildvars>>

UndoRowSelection ==
    /\ Commit(undo_row_selection(Current), "undo_row_selection", EmptyDict)
    /\ UNCHANGED <<dbvars, uivars, refvars, buildvars>>

\* Calls on the engine, in any order and with any argument.
Next ==
    \/ SetFilter
    \/ UpdateFilter
    \/ ClearFilter
    \/ SelectRows
    \/ UndoRowSelection

Spec == Init /\ [][Next]_vars

\* Calls that set, update and clear the criteria, in any order and with any
\* argument.
NextUpdates ==
    \/ SetFilter
    \/ UpdateFilter
    \/ ClearFilter

SpecUpdates == Init /\ [][NextUpdates]_vars

\* The state after the callback: what it left in the engine, and a record of
\* the event, of the calls made and of the session it was handled for.
After(r, p, ev, s) ==
    /\ filter_criteria' = r.e.fc
    /\ df' = p.self.data
    /\ selectionState' = p.self.flags
    /\ ui_elements' = IF r.e.exc = "none" THEN p.out ELSE ui_elements
    /\ last' = [op |-> ev.type, arg |-> ev.arg, exc |-> r.e.exc, had |-> Had,
                calls |-> r.calls, session |-> s]

\* self.presenter.update() runs where the branch of the event has not raised.
Presented(r, ev, s) ==
    After(r,
          IF r.e.exc = "none" THEN presenter_update(Written(r.e), r.e.fc)
          ELSE [self |-> Written(r.e), out |-> <<>>],
          ev, s)

\* The callback runs for an element triggered in the session s.
Handle(ev, s) == Presented(filter_data(Current, ev), ev, s)

ResetClicked ==
    /\ \E s \in sessions : Handle(Event("ResetButton", "", EmptyDict), s)
    /\ UNCHANGED <<dbvars, chip, sessions, threads, returned, refvars, buildvars>>

ChecklistChanged ==
    /\ \E s \in sessions : \E f \in ChecklistFields : \E v \in ValueLists(f) :
          Handle(Event("FilterChecklist", "", Dict1(f, v)), s)
    /\ UNCHANGED <<dbvars, chip, sessions, threads, returned, refvars, buildvars>>

PieClicked ==
    /\ \E s \in sessions : \E label \in PieLabels(Current) :
          Handle(Event("DataFigure", "pie", Dict1(PieField, <<label>>)), s)
    /\ UNCHANGED <<dbvars, chip, sessions, threads, returned, refvars, buildvars>>

ScatterSelected ==
    /\ \E s \in sessions : \E ids \in ValueLists("row_index") :
          /\ Range(ids) \subseteq ScatterPoints(Current)
          /\ Handle(Event("DataFigure", "scatter", Dict1("row_index", ids)), s)
    /\ UNCHANGED <<dbvars, chip, sessions, threads, returned, refvars, buildvars>>

ChipClicked ==
    /\ \E s \in sessions : \E c \in Chips(Current) :
          Handle(Event("SelectedCriteria", "", Dict1("value", ChipInfo(c))), s)
    /\ UNCHANGED <<dbvars, chip, sessions, threads, returned, refvars, buildvars>>

SwitchToggled ==
    /\ \E s \in sessions : Handle(Event("switch", "", EmptyDict), s)
    /\ UNCHANGED <<dbvars, chip, sessions, threads, returned, refvars, buildvars>>

\* The dashboard: the engine is driven by the callback alone.
NextUI ==
    \/ ResetClicked
    \/ ChecklistChanged
    \/ PieClicked
    \/ ScatterSelected
    \/ ChipClicked
    \/ SwitchToggled

SpecUI == Init /\ [][NextUI]_vars

\* A further browser opens the dashboard.
Connect ==
    /\ Cardinality(sessions) < MaxSessions
    /\ sessions' = sessions \cup {Cardinality(sessions) + 1}
    /\ UNCHANGED <<tablevars, dbvars, chip, threads, ui_elements, returned, refvars, buildvars>>

\* The dashboard with several browsers.
NextSessions ==
    \/ Connect
    \/ ResetClicked
    \/ ChecklistChanged
    \/ PieClicked
    \/ ScatterSelected
    \/ ChipClicked
    \/ SwitchToggled

SpecSessions == Init /\ [][NextSessions]_vars

----------------------------------------------------------------------------
(* The dashboard and the read operations of the engine *)

\* What a read operation leaves of the engine, and what it returns.
Read(op, r) ==
    /\ df' = r.self.data
    /\ selectionState' = r.self.flags
    /\ returned' = r.out
    /\ last' = [op |-> op, arg |-> EmptyDict, exc |-> "none", had |-> Had,
                calls |-> <<>>, session |-> 0]

GetSelectedRows ==
    /\ Read("get_selected_rows", get_selected_rows_of(Frame(df, selectionState)))
    /\ UNCHANGED <<filter_criteria, dbvars, chip, sessions, threads, ui_elements, refvars, buildvars>>

GetFilterCriteriaValues ==
    /\ Read("get_filter_criteria_values",
            [self |-> Frame(df, selectionState),
             out  |-> get_filter_criteria_values(filter_criteria)])
    /\ UNCHANGED <<filter_criteria, dbvars, chip, sessions, threads, ui_elements, refvars, buildvars>>

\* The dashboard, and callers that read the engine between its events.
NextView ==
    \/ ResetClicked
    \/ ChecklistChanged
    \/ PieClicked
    \/ ScatterSelected
    \/ ChipClicked
    \/ SwitchToggled
    \/ GetSelectedRows
    \/ GetFilterCriteriaValues

InitView ==
    /\ Init
    /\ df = SubSeq(MasterTable, 1, MaxRows)

SpecView == InitView /\ [][NextView]_vars

----------------------------------------------------------------------------
(* Callbacks the server runs in several threads on the one engine *)

\* The statements of a call that come before its apply_filter: the
\* assignments to self.filter_criteria.
assign(fc, t) ==
    CASE t.op = "clear_filter"       -> EmptyDict
      [] t.op = "update_filter"      -> t.arg @@ fc
      [] t.op = "select_rows"        -> t.arg @@ fc
      [] t.op = "undo_row_selection" -> [k \in (DOMAIN fc) \ {"row_index"} |-> fc[k]]

\* The events a browser sends while another callback runs.
ThreadEvents ==
    {Event("ResetButton", "", EmptyDict)}
        \cup UNION { { Event("FilterChecklist", "", Dict1(f, v)) :
                         v \in {<<>>, <<Options(f)[1]>>} } : f \in ChecklistFields }
        \cup { Event("DataFigure", "scatter", Dict1("row_index", <<df[1].id>>)) }

\* A thread of the server takes a request: the callback decides on its calls.
ThreadReceives ==
    /\ \E t \in 1..MaxThreads : \E ev \in ThreadEvents :
          /\ threads[t].pc = "idle"
          /\ threads' = [threads EXCEPT ![t] =
                 [pc |-> "assign", ev |-> ev, calls |-> triggers(Current, ev).calls,
                  pass |-> 1, is_row_selected |-> <<>>]]
    /\ UNCHANGED <<tablevars, dbvars, chip, sessions, ui_elements, returned, refvars, buildvars>>

\* The thread's call changes self.filter_criteria.
ThreadAssigns ==
    /\ \E t \in 1..MaxThreads :
          /\ threads[t].pc = "assign"
          /\ filter_criteria' = assign(filter_criteria, Head(threads[t].calls))
          /\ threads' = [threads EXCEPT ![t].pc = "compute"]
    /\ UNCHANGED <<df, selectionState, last, dbvars, chip, sessions, ui_elements, returned, refvars, buildvars>>

\* The record of a callback that has ended.
Ended(th, exc) ==
    [op |-> th.ev.type, arg |-> th.ev.arg, exc |-> exc, had |-> Had,
     calls |-> [i \in 1..Len(triggers(Current, th.ev).calls) |->
                   triggers(Current, th.ev).calls[i].op],
     session |-> 1]

\* apply_filter up to its last statement: is_row_selected is a local list,
\* computed from self.filter_criteria as it is now.
ThreadComputes ==
    /\ \E t \in 1..MaxThreads :
          /\ threads[t].pc = "compute"
          /\ IF apply_filter(Current).exc = "none"
             THEN /\ threads' = [threads EXCEPT
                        ![t].pc = "store",
                        ![t].is_row_selected = apply_filter(Current).sel]
                  /\ last' = last
             ELSE /\ threads' = [threads EXCEPT ![t] = Idle]
                  /\ last' = Ended(threads[t], apply_filter(Current).exc)
    /\ UNCHANGED <<df, selectionState, filter_criteria, dbvars, chip, sessions, ui_elements, returned, refvars, buildvars>>

\* The last statement of apply_filter: the column is replaced by the local
\* list.  select_rows calls apply_filter a second time; a callback with no
\* call left updates the presenter and returns.
ThreadStores ==
    /\ \E t \in 1..MaxThreads :
          /\ threads[t].pc = "store"
          /\ selectionState' =
                 setitem(Frame(df, selectionState), "selectionState",
                         threads[t].is_row_selected).flags
          /\ IF Head(threads[t].calls).op = "select_rows" /\ threads[t].pass = 1
             THEN /\ threads' = [threads EXCEPT ![t].pc = "compute", ![t].pass = 2]
                  /\ UNCHANGED <<last, ui_elements>>
             ELSE IF Len(threads[t].calls) > 1
             THEN /\ threads' = [threads EXCEPT
                        ![t].pc = "assign", ![t].pass = 1,
                        ![t].calls = Tail(threads[t].calls)]
                  /\ UNCHANGED <<last, ui_elements>>
             ELSE /\ threads' = [threads EXCEPT ![t] = Idle]
                  /\ last' = Ended(threads[t], "none")
                  /\ ui_elements' =
                        presenter_update(Frame(df, threads[t].is_row_selected),
                                         filter_criteria).out
    /\ UNCHANGED <<df, filter_criteria, dbvars, chip, sessions, returned, refvars, buildvars>>

NextThreads ==
    \/ ThreadReceives
    \/ ThreadAssigns
    \/ ThreadComputes
    \/ ThreadStores

InitThreads ==
    /\ Init
    /\ df = SubSeq(MasterTable, 1, MaxRows)

SpecThreads == InitThreads /\ [][NextThreads]_vars

----------------------------------------------------------------------------
(* A caller of the engine that keeps the dict it passed and the dict it got *)

\* Core.__init__ has called set_filter({}) and kept no reference to the dict.
InitAlias ==
    /\ df = SubSeq(MasterTable, 1, MaxRows)
    /\ heap = [ref_set_filter(dict_literal(NoHeap, EmptyDict)) EXCEPT !.arg = 0]
    /\ filter_criteria = EmptyDict
    /\ selectionState = [i \in 1..Len(df) |-> TRUE]
    /\ last = NoLast
    /\ fields = ConfigFields
    /\ query_results = DataFrame(<<>>)
    /\ call = NoCall
    /\ lookup = NoLookup
    /\ chip = NoChip
    /\ sessions = {1}
    /\ threads = NoThreads
    /\ ui_elements = presenter_update(Frame(df, selectionState), filter_criteria).out
    /\ returned = <<>>
    /\ collection = <<>>
    /\ builder = NoBuilder

\* The rest of a mutator: apply_filter on the criteria the engine's dict now
\* holds.
Applied(h, op, arg) ==
    LET after == Collect(h)
    IN  /\ heap' = after
        /\ Commit(apply_filter(Engine(Value(after, after.self), selectionState, "none")),
                  op, arg)

AliasSetFilter ==
    /\ \E c \in AliasArgs :
          Applied(ref_set_filter(dict_literal(heap, c)), "set_filter", c)
    /\ UNCHANGED <<dbvars, uivars, buildvars>>

AliasUpdateFilter ==
    /\ \E d \in AliasArgs :
          Applied(ref_update_filter(dict_literal(heap, d)), "update_filter", d)
    /\ UNCHANGED <<dbvars, uivars, buildvars>>

AliasClearFilter ==
    /\ Applied(ref_clear_filter(heap), "clear_filter", EmptyDict)
    /\ UNCHANGED <<dbvars, uivars, buildvars>>

AliasSelectRows ==
    /\ \E ids \in AliasRows :
          Applied(ref_select_rows(heap, ids), "select_rows", Dict1("row_index", ids))
    /\ UNCHANGED <<dbvars, uivars, buildvars>>

AliasUndoRowSelection ==
    /\ Applied(ref_undo_row_selection(heap), "undo_row_selection", EmptyDict)
    /\ UNCHANGED <<dbvars, uivars, buildvars>>

\* What a step of the caller leaves: the objects, and the criteria the engine
\* reads through its reference; no apply_filter runs.
Touched(h, op) ==
    LET after == Collect(h)
    IN  /\ heap' = after
        /\ filter_criteria' = Value(after, after.self)
        /\ last' = [op |-> op, arg |-> EmptyDict, exc |-> "none", had |-> Had,
                    calls |-> <<>>, session |-> 0]
        /\ UNCHANGED <<df, selectionState>>

GetFilterCriteria ==
    /\ Touched(ref_get_filter_criteria(heap), "get_filter_criteria")
    /\ UNCHANGED <<dbvars, uivars, buildvars>>

\* The caller strikes a value from a list of a dict it holds.
CallerRemoves ==
    /\ \E a \in Held(heap) : \E k \in DOMAIN heap.dicts[a] :
          \E x \in Range(heap.lists[heap.dicts[a][k]]) :
             Touched(ref_list_remove(heap, a, k, x), "list.remove")
    /\ UNCHANGED <<dbvars, uivars, buildvars>>

\* The caller puts a list under a key of a dict it holds.
CallerSetsItem ==
    /\ \E a \in Held(heap) :
          Touched(ref_dict_setitem(heap, a, "genre", <<"rock">>), "dict.setitem")
    /\ UNCHANGED <<dbvars, uivars, buildvars>>

NextAlias ==
    \/ AliasSetFilter
    \/ AliasUpdateFilter
    \/ AliasClearFilter
    \/ AliasSelectRows
    \/ AliasUndoRowSelection
    \/ GetFilterCriteria
    \/ CallerRemoves
    \/ CallerSetsItem

SpecAlias == InitAlias /\ [][NextAlias]_vars

----------------------------------------------------------------------------
(* The metadata source on its own: set_fields and query, before a table is made *)

InitQuery ==
    /\ df = <<>>
    /\ selectionState = <<>>
    /\ filter_criteria = EmptyDict
    /\ last = NoLast
    /\ fields \in FieldDicts
    /\ query_results = DataFrame(<<>>)
    /\ call = NoCall
    /\ lookup = NoLookup
    /\ chip = NoChip
    /\ sessions = {1}
    /\ threads = NoThreads
    /\ ui_elements = presenter_update(Frame(df, selectionState), filter_criteria).out
    /\ returned = <<>>
    /\ collection = <<>>
    /\ builder = NoBuilder
    /\ heap = NoHeap

SetFields ==
    /\ call.pc # "loop"
    /\ \E field_dict \in FieldDicts : fields' = field_dict
    /\ UNCHANGED <<tablevars, query_results, call, lookup, uivars, refvars, buildvars>>

\* query up to the loop, for query_output a list of names (a str stands for the
\* list of that one name): the names are turned into paths (KeyError for a name
\* that is no key of fields), the cursor is opened and the dataframe is made
\* with its columns.
QueryBegin ==
    /\ call.pc # "loop"
    /\ \E query_output \in NameLists :
        LET output_paths == get_path(fields, query_output)
            paths == dict_keys(output_paths.v)
        IN  IF output_paths.exc # "none"
            THEN /\ call' = [pc |-> "raised", fields |-> fields, names |-> query_output,
                             paths |-> <<>>, docs |-> <<>>, exc |-> output_paths.exc]
                 /\ query_results' = DataFrame(<<>>)
            ELSE /\ call' = [pc |-> "loop", fields |-> fields, names |-> query_output,
                             paths |-> paths, docs |-> <<>>, exc |-> "none"]
                 /\ query_results' = DataFrame(get_field_names(fields, paths))
    /\ UNCHANGED <<tablevars, fields, lookup, uivars, refvars, buildvars>>

\* One turn of "for doc in cursor": the cursor yields a document.
QueryForDoc ==
    /\ call.pc = "loop"
    /\ Len(call.docs) < MaxDocs
    /\ \E doc \in Docs :
        /\ query_results' = for_doc(fields, call.paths, query_results, doc)
        /\ call' = [call EXCEPT !.docs = Append(@, doc)]
    /\ UNCHANGED <<tablevars, fields, lookup, uivars, refvars, buildvars>>

\* The cursor is exhausted: query returns query_results.
QueryReturn ==
    /\ call.pc = "loop"
    /\ call' = [call EXCEPT !.pc = "done"]
    /\ UNCHANGED <<tablevars, fields, query_results, lookup, uivars, refvars, buildvars>>

NextQuery ==
    \/ SetFields
    \/ QueryBegin
    \/ QueryForDoc
    \/ QueryReturn

SpecQuery == InitQuery /\ [][NextQuery]_vars

----------------------------------------------------------------------------
(* The metadata source asked for paths and names *)

\* db.get_path(name)
GetPathStr ==
    /\ \E requested_field_name \in Range(AskedNames) :
          LET field_paths == get_path_str(fields, requested_field_name)
          IN  lookup' = [op |-> "get_path", form |-> "str", fields |-> fields,
                         arg |-> <<requested_field_name>>, exc |-> field_paths.exc,
                         v |-> IF field_paths.exc = "none" THEN <<field_paths.v>>
                               ELSE <<>>]
    /\ UNCHANGED <<tablevars, fields, query_results, call, uivars, refvars, buildvars>>

\* db.get_path([name, ...])
GetPathList ==
    /\ \E requested_field_names \in NameLists :
          LET field_paths == get_path(fields, requested_field_names)
          IN  lookup' = [op |-> "get_path", form |-> "list", fields |-> fields,
                         arg |-> requested_field_names, exc |-> field_paths.exc,
                         v |-> field_paths.v]
    /\ UNCHANGED <<tablevars, fields, query_results, call, uivars, refvars, buildvars>>

\* db.get_field_name(path)
GetFieldNameStr ==
    /\ \E requested_path \in Range(AskedPaths) :
          LET field_names == get_field_name(fields, requested_path)
          IN  lookup' = [op |-> "get_field_name", form |-> "str", fields |-> fields,
                         arg |-> <<requested_path>>, exc |-> field_names.exc,
                         v |-> IF field_names.exc = "none" THEN <<field_names.v>>
                               ELSE <<>>]
    /\ UNCHANGED <<tablevars, fields, query_results, call, uivars, refvars, buildvars>>

\* db.get_field_name([path, ...])
GetFieldNameList ==
    /\ \E requested_paths \in PathLists :
          lookup' = [op |-> "get_field_name", form |-> "list", fields |-> fields,
                     arg |-> requested_paths, exc |-> "none",
                     v |-> get_field_names(fields, requested_paths)]
    /\ UNCHANGED <<tablevars, fields, query_results, call, uivars, refvars, buildvars>>

NextLookup ==
    SetFields \/ GetPathStr \/ GetPathList \/ GetFieldNameStr \/ GetFieldNameList

SpecLookup == InitQuery /\ [][NextLookup]_vars

----------------------------------------------------------------------------
(* The builder: update_database on a collection a viewer queries *)

\* A metadata file: the document it holds, and whether load_metadata can
\* read it.
File(doc, ok) == [doc |-> doc, ok |-> ok]

Files == { File(d, TRUE) : d \in Docs } \cup { File(Doc("d2", TreeTwo), FALSE) }

\* The files _find_files may have found.
FileLists ==
    UNION { [1..n -> Files] : n \in 1..MaxFiles }

\* The collections the builder may find: no two documents with one _id.
Collections ==
    { c \in UNION { [1..n -> Docs] : n \in 0..MaxDocs } :
        \A i, j \in 1..Len(c) : c[i].id = c[j].id => i = j }

\* collection.delete_one({"_id": document_id}): the first document of that
\* _id is removed; deleted_count is 1 or 0.
delete_single_record(c, document_id) ==
    IF \E i \in 1..Len(c) : c[i].id = document_id
    THEN LET i == CHOOSE j \in 1..Len(c) :
                    /\ c[j].id = document_id
                    /\ \A k \in 1..(j - 1) : c[k].id # document_id
         IN  [collection |-> SubSeq(c, 1, i - 1) \o SubSeq(c, i + 1, Len(c)),
              deleted_count |-> 1]
    ELSE [collection |-> c, deleted_count |-> 0]

\* collection.insert_one(document): the unique index on _id refuses a second
\* document of an _id.
insert_single_record(c, document_to_insert) ==
    IF \E i \in 1..Len(c) : c[i].id = document_to_insert.id
    THEN [collection |-> c, exc |-> "DuplicateKeyError"]
    ELSE [collection |-> Append(c, document_to_insert), exc |-> "none"]

\* As the return of update_record, with the two answers exchanged.
update_result_swapped(is_record_deleted) ==
    IF is_record_deleted # 0 THEN "record_added" ELSE "record_modified"

\* What update_record returns.
update_result(is_record_deleted) ==
    IF is_record_deleted # 0 THEN "record_modified" ELSE "record_added"

InitBuild ==
    /\ df = <<>>
    /\ selectionState = <<>>
    /\ filter_criteria = EmptyDict
    /\ last = NoLast
    /\ fields = ConfigFields
    /\ query_results = DataFrame(<<>>)
    /\ call = NoCall
    /\ lookup = NoLookup
    /\ chip = NoChip
    /\ sessions = {1}
    /\ threads = NoThreads
    /\ ui_elements = presenter_update(Frame(df, selectionState), filter_criteria).out
    /\ returned = <<>>
    /\ collection \in Collections
    /\ builder \in { [NoBuilder EXCEPT !.input_files = f] : f \in FileLists }
    /\ heap = NoHeap

\* update_database is called: the counters start at zero.
BuildStart ==
    /\ builder.pc \in {"idle", "done", "failed"}
    /\ builder.runs < MaxRuns
    /\ builder' = [builder EXCEPT
          !.pc = "file", !.i = 1, !.is_record_deleted = 0,
          !.n_records_modified = 0, !.n_new_records = 0, !.n_skipped_files = 0,
          !.before = collection, !.again = (builder.pc = "done"),
          !.runs = builder.runs + 1]
    /\ UNCHANGED <<tablevars, dbvars, collection, uivars, refvars>>

\* One turn of "for input_file in self.input_files": a file that cannot be
\* loaded is skipped; after the last file the counters are reported.
BuildFile ==
    /\ builder.pc = "file"
    /\ builder' =
          IF builder.i > Len(builder.input_files)
          THEN [builder EXCEPT !.pc = "done"]
          ELSE IF ~builder.input_files[builder.i].ok
          THEN [builder EXCEPT !.i = builder.i + 1,
                               !.n_skipped_files = builder.n_skipped_files + 1]
          ELSE [builder EXCEPT !.pc = "delete"]
    /\ UNCHANGED <<tablevars, dbvars, collection, uivars, refvars>>

\* update_record: the existing record is deleted if present.
BuildDelete ==
    /\ builder.pc = "delete"
    /\ collection' =
          delete_single_record(collection,
                               builder.input_files[builder.i].doc.id).collection
    /\ builder' = [builder EXCEPT
          !.pc = "insert",
          !.is_record_deleted =
              delete_single_record(collection,
                                   builder.input_files[builder.i].doc.id).deleted_count]
    /\ UNCHANGED <<tablevars, dbvars, uivars, refvars>>

\* update_record: the new record is inserted and the result counted; an
\* insert that the database refuses or that does not reach it raises, and
\* update_database ends with the exception.
BuildInsert ==
    /\ builder.pc = "insert"
    /\ \E reached \in BOOLEAN :
          IF reached /\ insert_single_record(
                            collection, builder.input_files[builder.i].doc).exc = "none"
          THEN /\ collection' =
                     insert_single_record(
                         collection, builder.input_files[builder.i].doc).collection
               /\ builder' = [builder EXCEPT
                     !.pc = "file", !.i = builder.i + 1,
                     !.n_records_modified =
                         IF update_result(builder.is_record_deleted) = "record_modified"
                         THEN builder.n_records_modified + 1
                         ELSE builder.n_records_modified,
                     !.n_new_records =
                         IF update_result(builder.is_record_deleted) = "record_added"
                         THEN builder.n_new_records + 1
                         ELSE builder.n_new_records]
          ELSE /\ collection' = collection
               /\ builder' = [builder EXCEPT !.pc = "failed"]
    /\ UNCHANGED <<tablevars, dbvars, uivars, refvars>>

\* A viewer queries the collection for every field of its config file.
ViewerQuery ==
    /\ call' = [pc |-> "done", fields |-> fields, names |-> FieldNames(fields),
                paths |-> dict_keys(get_path(fields, FieldNames(fields)).v),
                docs |-> collection, exc |-> "none"]
    /\ query_results' =
          for_cursor(fields, dict_keys(get_path(fields, FieldNames(fields)).v),
                     collection)
    /\ UNCHANGED <<tablevars, fields, lookup, buildvars, uivars, refvars>>

NextBuild ==
    \/ BuildStart
    \/ BuildFile
    \/ BuildDelete
    \/ BuildInsert
    \/ ViewerQuery

SpecBuild == InitBuild /\ [][NextBuild]_vars

----------------------------------------------------------------------------
(* Core.__init__: the table is made from the query on every configured field *)

\* Fields sections of a config file; three give a field the display name
\* selectionState.
CoreFieldDicts ==
    { << <<"genre", Path_g>>, <<"tags", Path_t>> >>,
      << <<"genre", Path_g>>, <<"selectionState", Path_t>> >>,
      << <<"selectionState", Path_g>> >>,
      << <<"selectionState", Path_n_0>>, <<"tags", Path_t>> >> }

True == BoolNode(<<"T">>)
False == BoolNode(<<"F">>)

\* df[name] = values on a dataframe as query builds it: the column of that
\* name takes the values, row by row; a new name makes a new last column.
frame_setitem(t, name, values) ==
    [columns |-> IF name \in Range(t.columns) THEN t.columns ELSE Append(t.columns, name),
     rows |-> [i \in 1..Len(t.rows) |->
                 [id |-> t.rows[i].id,
                  cells |-> [c \in Range(t.columns) \cup {name} |->
                               IF c = name THEN values[i] ELSE t.rows[i].cells[c]]]]]

\* DataTableCore.__init__: a column selectionState, True in every row, is added
\* unless the dataframe has a column of that name; the dataframe is kept.
datatable_init(t) ==
    IF "selectionState" \in Range(t.columns) THEN t
    ELSE frame_setitem(t, "selectionState", [i \in 1..Len(t.rows) |-> True])

\* apply_filter with no criteria: every row is accepted, and the list is put
\* into the column selectionState.
apply_filter_empty(t) ==
    frame_setitem(t, "selectionState", [i \in 1..Len(t.rows) |-> True])

\* x == False
eq_False(x) == x = False \/ x = IntNode(<<"0">>)

\* get_selected_rows on that dataframe: the rows whose selectionState equals
\* False are dropped, then the column selectionState.
frame_get_selected_rows(t) ==
    LET kept == SelectSeq(t.rows, LAMBDA r : ~eq_False(r.cells["selectionState"]))
        cols == SelectSeq(t.columns, LAMBDA c : c # "selectionState")
    IN  [columns |-> cols,
         rows |-> [i \in 1..Len(kept) |->
                     [id |-> kept[i].id,
                      cells |-> [c \in Range(cols) |-> kept[i].cells[c]]]]]

InitCore ==
    /\ df = <<>>
    /\ selectionState = <<>>
    /\ filter_criteria = EmptyDict
    /\ last = NoLast
    /\ fields \in CoreFieldDicts
    /\ query_results = DataFrame(<<>>)
    /\ call = NoCall
    /\ lookup = NoLookup
    /\ chip = NoChip
    /\ sessions = {1}
    /\ threads = NoThreads
    /\ ui_elements = presenter_update(Frame(df, selectionState), filter_criteria).out
    /\ returned = <<>>
    /\ collection = <<>>
    /\ builder = NoBuilder
    /\ heap = NoHeap

\* self.db.query({}, list(self.db.fields.keys())), up to the loop.
CoreQueryBegin ==
    /\ call.pc = "idle"
    /\ LET paths == dict_keys(get_path(fields, FieldNames(fields)).v)
       IN  /\ call' = [pc |-> "loop", fields |-> fields, names |-> FieldNames(fields),
                       paths |-> paths, docs |-> <<>>, exc |-> "none"]
           /\ query_results' = DataFrame(get_field_names(fields, paths))
    /\ UNCHANGED <<tablevars, fields, lookup, uivars, refvars, buildvars>>

\* DataTableCore(query_results) and set_filter({}): the dataframe the query
\* returned is the dataframe of the table.
CoreMakeTable ==
    /\ call.pc = "done"
    /\ query_results' = apply_filter_empty(datatable_init(query_results))
    /\ call' = [call EXCEPT !.pc = "table"]
    /\ UNCHANGED <<tablevars, fields, lookup, uivars, refvars, buildvars>>

NextCore ==
    \/ CoreQueryBegin
    \/ QueryForDoc
    \/ QueryReturn
    \/ CoreMakeTable

SpecCore == InitCore /\ [][NextCore]_vars

----------------------------------------------------------------------------
(* A chip built for a criterion value, and clicked *)

\* build_chips with the item_info encode_criterion_info(key, ival)
BuildChip ==
    /\ \E key \in CriterionNames : \E ival \in CriterionValues :
          chip' = [pc |-> "built", name |-> key, value |-> ival,
                   info |-> encode_criterion_info(key, ival),
                   out |-> DecodeRaised("none")]
    /\ UNCHANGED <<tablevars, dbvars, sessions, threads, ui_elements, returned, refvars, buildvars>>

\* The chip is clicked: filter_data decodes its value property.
ClickChip ==
    /\ chip.pc = "built"
    /\ chip' = [chip EXCEPT !.pc = "clicked", !.out = decode_criterion_info(chip.info)]
    /\ UNCHANGED <<tablevars, dbvars, sessions, threads, ui_elements, returned, refvars, buildvars>>

NextCodec == BuildChip \/ ClickChip

SpecCodec == InitQuery /\ [][NextCodec]_vars

----------------------------------------------------------------------------
(* The filter predicate of the specification (sections 3 and 4.4) *)

\* A cell satisfies a value list: a scalar is one of the values, a list holds at
\* least one of them, a missing value never does.
Satisfies(cell, values) ==
    CASE cell.kind = "scalar" -> cell.v[1] \in Range(values)
      [] cell.kind = "list"   -> Range(cell.v) \cap Range(values) # {}
      [] OTHER                -> FALSE

\* A row passes the criterion on key k.
Passes(row, k, values) ==
    IF k = "row_index" THEN row.id \in Range(values)
    ELSE IF k \in Columns THEN Satisfies(row.cells[k], values)
    ELSE FALSE

\* The keys of a criteria dict whose value list is not empty.
Active(fc) == { k \in DOMAIN fc : fc[k] # <<>> }

\* A row is visible under a criteria dict.
Visible(row, fc) == \A k \in Active(fc) : Passes(row, k, fc[k])

FilterPredicate(fc) == [i \in 1..Len(df) |-> Visible(df[i], fc)]

Rows == 1..Len(df)

Returned == last.exc = "none"

Mutators ==
    {"set_filter", "update_filter", "clear_filter", "select_rows", "undo_row_selection"}

----------------------------------------------------------------------------
(* Claims *)

\* C1: whenever the last call on the engine has returned, the selectionState of
\* every row is the filter predicate of the current criteria on that row.
C1_SelectionFollowsCriteria ==
    Returned => selectionState = FilterPredicate(filter_criteria)

\* A row selection was undone and a field criterion still hides a row.
C1_Witness ==
    /\ last.op = "undo_row_selection" /\ Returned /\ last.had
    /\ Active(filter_criteria) # {}
    /\ \E i, j \in Rows : selectionState[i] /\ ~selectionState[j]

\* C2: for any criteria dict, an apply_filter that returns leaves a row selected
\* iff the row passes every criterion with a non-empty value list; with no such
\* criterion it returns and leaves every row selected.
C2_ApplyFilterIsConjunction ==
    \A fc \in SetArgs \cup Deltas \cup {filter_criteria} :
        LET r == apply_filter(Engine(fc, selectionState, "none"))
        IN  /\ r.exc = "none" =>
                \A i \in Rows :
                    r.sel[i] <=> \A k \in Active(fc) : Passes(df[i], k, fc[k])
            /\ Active(fc) = {} => r.exc = "none" /\ \A i \in Rows : r.sel[i]
            /\ r.fc = fc

\* Two criteria are active; one row passes both, one only the first, one only
\* the second.
C2_Witness ==
    /\ last.op \in Mutators /\ Returned
    /\ {"genre", "tags"} \subseteq Active(filter_criteria)
    /\ \E i, j, k \in Rows :
        /\ selectionState[i]
        /\ ~selectionState[j]
        /\ Passes(df[j], "genre", filter_criteria["genre"])
        /\ ~Passes(df[j], "tags", filter_criteria["tags"])
        /\ ~selectionState[k]
        /\ Passes(df[k], "tags", filter_criteria["tags"])
        /\ ~Passes(df[k], "genre", filter_criteria["genre"])

\* C3: update_filter(delta) leaves each key of delta with delta's list and every
\* other key, row_index included, with the list it had.
C3_UpdateOverwritesAndKeeps ==
    [][last'.op = "update_filter" =>
        /\ DOMAIN filter_criteria' = (DOMAIN filter_criteria) \cup (DOMAIN last'.arg)
        /\ \A k \in DOMAIN last'.arg : filter_criteria'[k] = last'.arg[k]
        /\ \A k \in (DOMAIN filter_criteria) \ (DOMAIN last'.arg) :
              filter_criteria'[k] = filter_criteria[k]
      ]_vars

\* genre was updated while a tags criterion and a row selection were in force.
C3_Witness ==
    /\ last.op = "update_filter" /\ Returned /\ last.had
    /\ last.arg = Dict1("genre", <<"rock">>)
    /\ {"tags", "row_index"} \subseteq Active(filter_criteria)

\* C4: after set_filter(criteria) the criteria dict is the argument, so no
\* earlier key survives, and a call that returned has recomputed selectionState
\* from it.
C4_SetFilterReplaces ==
    last.op = "set_filter" =>
        /\ filter_criteria = last.arg
        /\ Returned => selectionState = FilterPredicate(last.arg)

\* set_filter was called while a row selection was in force, and hides a row.
C4_Witness ==
    /\ last.op = "set_filter" /\ Returned /\ last.had
    /\ "row_index" \notin DOMAIN filter_criteria
    /\ \E i \in Rows : ~selectionState[i]

\* C5: in every reachable state clear_filter returns with the criteria empty and
\* every row of the table visible, and so is every state a clear_filter leaves.
C5_ClearShowsAll ==
    /\ LET r == clear_filter(Current)
       IN  r.exc = "none" /\ r.fc = EmptyDict /\ get_selected_rows(r) = df
    /\ last.op = "clear_filter" =>
          Returned /\ filter_criteria = EmptyDict /\ get_selected_rows(Current) = df

\* clear_filter was called on a table of several rows with a row selection in
\* force.
C5_Witness ==
    /\ last.op = "clear_filter" /\ last.had
    /\ Len(df) > 1

\* C6: after select_rows(ids) with ids non-empty has returned, a visible row has
\* its key in ids and satisfies every active field criterion; with one field
\* criterion active the rows with their key in ids that satisfy it are exactly
\* the visible ones.
C6_RowSelectionAndField ==
    (last.op = "select_rows" /\ Returned /\ last.arg["row_index"] # <<>>) =>
        \A f \in Active(filter_criteria) \ {"row_index"} :
            \A i \in Rows :
                LET inIds == df[i].id \in Range(last.arg["row_index"])
                    sat   == f \in Columns
                             /\ Satisfies(df[i].cells[f], filter_criteria[f])
                IN  /\ selectionState[i] => inIds /\ sat
                    /\ Active(filter_criteria) = {f, "row_index"} =>
                          (inIds /\ sat => selectionState[i])

\* A selected row fails the genre criterion and is hidden; another selected row
\* is visible.
C6_Witness ==
    /\ last.op = "select_rows" /\ Returned
    /\ Active(filter_criteria) = {"genre", "row_index"}
    /\ \E i, j \in Rows :
        /\ df[i].id \in Range(filter_criteria["row_index"])
        /\ ~Satisfies(df[i].cells["genre"], filter_criteria["genre"])
        /\ ~selectionState[i]
        /\ df[j].id \in Range(filter_criteria["row_index"])
        /\ selectionState[j]

\* C7: select_rows(ids) ends as update_filter({"row_index": ids}) would from the
\* same state (criteria, selectionState and outcome), and keeps every field
\* criterion.
C7_SelectRowsIsUpdate ==
    [][last'.op = "select_rows" =>
        LET r == update_filter(Current, last'.arg)
        IN  /\ filter_criteria' = r.fc
            /\ selectionState' = r.sel
            /\ last'.exc = r.exc
            /\ \A k \in (DOMAIN filter_criteria) \ {"row_index"} :
                  /\ k \in DOMAIN filter_criteria'
                  /\ filter_criteria'[k] = filter_criteria[k]
      ]_vars

\* Rows were selected under two field criteria, and some row is visible.
C7_Witness ==
    /\ last.op = "select_rows" /\ Returned
    /\ Active(filter_criteria) = {"genre", "tags", "row_index"}
    /\ \E i \in Rows : selectionState[i]

\* C8: undo_row_selection removes the key row_index and nothing else: every
\* other entry, an empty list included, stays as it was.
C8_UndoRemovesRowIndexOnly ==
    [][last'.op = "undo_row_selection" =>
        /\ DOMAIN filter_criteria' = (DOMAIN filter_criteria) \ {"row_index"}
        /\ \A k \in DOMAIN filter_criteria' : filter_criteria'[k] = filter_criteria[k]
        /\ "row_index" \notin DOMAIN filter_criteria => filter_criteria' = filter_criteria
      ]_vars

\* A row selection was undone; an entry with an empty list and an entry with
\* values are still there.
C8_Witness ==
    /\ last.op = "undo_row_selection" /\ last.had
    /\ \E k \in DOMAIN filter_criteria : filter_criteria[k] = <<>>
    /\ Active(filter_criteria) # {}

\* C9: after the callback has handled a checklist change, the criteria have no
\* key row_index and the checklist's field holds the newly checked values.
C9_ChecklistCancelsRowSelection ==
    last.op = "FilterChecklist" =>
        /\ Returned
        /\ "row_index" \notin DOMAIN filter_criteria
        /\ \A f \in DOMAIN last.arg :
              f \in DOMAIN filter_criteria /\ filter_criteria[f] = last.arg[f]

\* A checklist was changed while points were selected.
C9_Witness ==
    /\ last.op = "FilterChecklist" /\ last.had
    /\ Active(last.arg) # {}
    /\ \E i \in Rows : ~selectionState[i]

\* C10: a list cell passes a non-empty value list iff one of its elements is in
\* the list, as a function and in the selectionState a call leaves.
C10_ListCellPassesOnAnyElement ==
    \A i \in Rows : \A f \in Columns :
        df[i].cells[f].kind = "list" =>
            LET L == df[i].cells[f].v
                common(V) == \E n \in 1..Len(L) : \E m \in 1..Len(V) : L[n] = V[m]
            IN  /\ \A V \in ValueLists(f) \ {<<>>} :
                    is_value_in_criteria(df[i].cells[f], V) <=> common(V)
                /\ (Returned /\ f \in Active(filter_criteria) /\ f # "row_index") =>
                      /\ selectionState[i] => common(filter_criteria[f])
                      /\ Active(filter_criteria) = {f} =>
                            (common(filter_criteria[f]) => selectionState[i])

\* Under tags: [c, d] the row with [a, b] and the row with [] are hidden and the
\* row with [b, c] is visible.
C10_Witness ==
    /\ last.op \in Mutators /\ Returned
    /\ filter_criteria = Dict1("tags", <<"c", "d">>)
    /\ \E i, j, k \in Rows :
        /\ df[i].cells["tags"] = List(<<"a", "b">>) /\ ~selectionState[i]
        /\ df[j].cells["tags"] = List(<<"b", "c">>) /\ selectionState[j]
        /\ df[k].cells["tags"] = List(<<>>) /\ ~selectionState[k]

\* C11: a row whose cell for field f is None fails every non-empty value list on
\* f, as a function and in the selectionState a call leaves; when the criterion
\* on f is empty or absent the row is visible iff it passes the other criteria.
C11_MissingNeverMatches ==
    \A i \in Rows : \A f \in Columns \ {"row_index"} :
        df[i].cells[f] = None =>
            /\ \A V \in ValueLists(f) \ {<<>>} : ~is_value_in_criteria(df[i].cells[f], V)
            /\ (Returned /\ f \in Active(filter_criteria)) => ~selectionState[i]
            /\ (Returned /\ f \notin Active(filter_criteria)) =>
                  (selectionState[i] <=>
                      \A k \in Active(filter_criteria) :
                          Passes(df[i], k, filter_criteria[k]))

\* Under a genre and a tags criterion the row without genre passes the tags
\* criterion and is hidden, while another row is visible.
C11_Witness ==
    /\ last.op \in Mutators /\ Returned
    /\ Active(filter_criteria) = {"genre", "tags"}
    /\ \E i, j \in Rows :
        /\ df[i].cells["genre"] = None
        /\ Passes(df[i], "tags", filter_criteria["tags"])
        /\ ~selectionState[i]
        /\ selectionState[j]

\* A criteria dict with key f mapped to the empty list, and one without key f.
WithEmpty(c, f) == Dict1(f, <<>>) @@ c

Without(c, f) == [k \in (DOMAIN c) \ {f} |-> c[k]]

\* C12: for the criteria dict c of every reachable state and every key f,
\* row_index included, apply_filter under c with f mapped to the empty list and
\* under c without f end alike and leave the same visible rows; where c itself
\* maps f to the empty list, these are the visible rows of the state.
C12_EmptyListIsUnconstrained ==
    \A f \in Keys :
        LET a == apply_filter(Engine(WithEmpty(filter_criteria, f), selectionState, "none"))
            b == apply_filter(Engine(Without(filter_criteria, f), selectionState, "none"))
        IN  /\ a.exc = b.exc
            /\ get_selected_rows(a) = get_selected_rows(b)
            /\ (/\ Returned
                /\ f \in DOMAIN filter_criteria
                /\ filter_criteria[f] = <<>>) =>
                    get_selected_rows(Current) = get_selected_rows(b)

\* The criteria hold an empty row selection and an empty list for a field
\* beside a criterion that hides a row.
C12_Witness ==
    /\ last.op \in Mutators /\ Returned
    /\ "row_index" \in DOMAIN filter_criteria /\ filter_criteria["row_index"] = <<>>
    /\ \E f \in Columns \ {"row_index"} :
          f \in DOMAIN filter_criteria /\ filter_criteria[f] = <<>>
    /\ Active(filter_criteria) # {}
    /\ \E i, j \in Rows : selectionState[i] /\ ~selectionState[j]

Rank(i) == Cardinality({ j \in 1..i : selectionState[j] })

\* C14: get_selected_rows returns the rows whose selectionState is true, each
\* once and in table order, with their key and every data column and no other
\* column; for d1, d2, d3 under {genre: [jazz]} these are d1 then d3.
C14_SelectedRowsInOrder ==
    LET out == get_selected_rows(Current)
    IN  /\ Len(out) = Cardinality({ i \in Rows : selectionState[i] })
        /\ \A i \in Rows : selectionState[i] => out[Rank(i)] = df[i]
        /\ \A n \in 1..Len(out) :
              /\ DOMAIN out[n].cells = Columns
              /\ "selectionState" \notin DOMAIN out[n].cells
        /\ (/\ Returned
            /\ [i \in Rows |-> df[i].id] = <<"d1", "d2", "d3">>
            /\ filter_criteria = Dict1("genre", <<"jazz">>)) =>
                [n \in 1..Len(out) |-> out[n].id] = <<"d1", "d3">>

\* update_filter({genre: [jazz]}) was called on the table d1, d2, d3.
C14_Witness ==
    /\ last.op = "update_filter" /\ Returned
    /\ last.arg = Dict1("genre", <<"jazz">>)
    /\ filter_criteria = Dict1("genre", <<"jazz">>)
    /\ [i \in Rows |-> df[i].id] = <<"d1", "d2", "d3">>
    /\ selectionState = <<TRUE, FALSE, TRUE>>

\* C15: a second apply_filter, with the criteria and the table as the first left
\* them, ends as the first did and leaves the same selectionState column,
\* whatever the column held before the first.
C15_ApplyFilterIdempotent ==
    \A s \in [Rows -> BOOLEAN] \cup {selectionState} :
        LET a == apply_filter(Engine(filter_criteria, s, "none"))
            b == apply_filter(Engine(a.fc, a.sel, "none"))
        IN  /\ b.sel = a.sel
            /\ b.fc = a.fc
            /\ b.exc = a.exc

\* select_rows, which runs apply_filter twice in a row, has returned under a
\* field criterion with a row hidden and a row visible.
C15_Witness ==
    /\ last.op = "select_rows" /\ Returned
    /\ Active(filter_criteria) \ {"row_index"} # {}
    /\ "row_index" \in Active(filter_criteria)
    /\ \E i, j \in Rows : selectionState[i] /\ ~selectionState[j]

----------------------------------------------------------------------------
(* Path resolution of the specification (section 4.2) *)

Primitive(node) == node.kind \in {"str", "int", "bool"}

\* One segment: the item of a mapping under that key, or the element of a list
\* at that integer index (counted as the list's subscript counts it); Missing
\* where there is none, and below Missing or a primitive.
ResolveStep(cur, seg) ==
    CASE cur.kind = "dict" ->
            IF \E i \in 1..Len(cur.kids) : cur.kids[i][1] = seg
            THEN cur.kids[CHOOSE i \in 1..Len(cur.kids) : cur.kids[i][1] = seg][2]
            ELSE NoneNode
      [] cur.kind = "list" ->
            LET n   == int(seg)
                len == Len(cur.kids)
            IN  IF n.exc = "none" /\ n.v \in (0 - len)..(len - 1)
                THEN cur.kids[IF n.v < 0 THEN len + n.v + 1 ELSE n.v + 1][2]
                ELSE NoneNode
      [] OTHER -> NoneNode

\* The values met along the segments, from the document itself on.
ResolveWalk(tree, segs) ==
    [n \in 0..Len(segs) |->
        LET W[m \in 0..Len(segs)] ==
                IF m = 0 THEN tree ELSE ResolveStep(W[m - 1], segs[m])
        IN  W[n]]

\* The walk meets a primitive while segments remain.
BelowPrimitive(tree, segs) ==
    \E n \in 0..(Len(segs) - 1) : Primitive(ResolveWalk(tree, segs)[n])

QueryDone == call.pc = "done"

\* The documents the cursor of the last query yielded.
Yielded == 1..Len(call.docs)

\* C16: a query whose names are all registered returns without raising,
\* whatever the documents lack; for each document and projection path whose
\* walk does not go below a primitive, the value found is the value at the path,
\* and None when a key is not in a mapping, an index is out of a list's range or
\* a segment on a list is no integer, also when segments follow; in
\* {"a": {"b": [{"c": 1}, {"c": 2}]}} "a.b.0.c" gives 1 and "a.b.9.c" None.
C16_ExtractionGivesValueOrNone ==
    /\ call.pc \in {"loop", "done"} => call.exc = "none"
    /\ QueryDone =>
          \A i \in Yielded : \A p \in Range(call.paths) :
              LET tree == call.docs[i].tree
                  segs == split(p)
              IN  ~BelowPrimitive(tree, segs) =>
                      extract(tree, p) = ResolveWalk(tree, segs)[Len(segs)]
    /\ extract(DictNode(TreeOne), Path_a_b_0_c) = IntNode(<<"1">>)
    /\ extract(DictNode(TreeOne), Path_a_b_9_c) = NoneNode

\* A query for a.b.0.c, a.b.9.c and a.b.-1.c has yielded the document with the
\* two-element list and the document with the empty list.
C16_Witness ==
    /\ QueryDone
    /\ call.paths = <<Path_a_b_0_c, Path_a_b_9_c, Path_a_b_m1_c>>
    /\ call.docs = <<Doc("d1", TreeOne), Doc("d2", TreeTwo)>>
    /\ query_results.rows[1].cells["n1"] = IntNode(<<"1">>)
    /\ query_results.rows[1].cells["n2"] = NoneNode
    /\ query_results.rows[2].cells["n1"] = NoneNode

\* C17: for each document and projection path of a returned query, if the walk
\* meets a str, an int or a bool while segments remain, the value found is
\* None, also when the next segment is an integer.
C17_PrimitiveHasNoChildren ==
    QueryDone =>
        \A i \in Yielded : \A p \in Range(call.paths) :
            BelowPrimitive(call.docs[i].tree, split(p)) =>
                extract(call.docs[i].tree, p) = NoneNode

\* The ids of the documents yielded, each at its first occurrence.
FirstIds ==
    LET F[n \in 0..Len(call.docs)] ==
            IF n = 0 THEN <<>>
            ELSE IF call.docs[n].id \in Range(F[n - 1]) THEN F[n - 1]
                 ELSE Append(F[n - 1], call.docs[n].id)
    IN  F[Len(call.docs)]

RowLabels == [i \in 1..Len(query_results.rows) |-> query_results.rows[i].id]

\* C18: the table a query returns has one row per document id, in the order
\* in which the cursor yielded the documents.
C18_OneRowPerDocumentInOrder ==
    QueryDone => RowLabels = FirstIds

\* The last document the cursor yielded with the id of document i.
Later(i) ==
    CHOOSE j \in Yielded :
        /\ call.docs[j].id = call.docs[i].id
        /\ \A k \in Yielded : call.docs[k].id = call.docs[i].id => k <= j

\* C19: when a query for at least one name has yielded two documents with the
\* same id, the table has exactly one row for that id, and it is the row the
\* later document alone gives: no cell keeps a value of the earlier one.
C19_LaterDocumentReplacesRow ==
    (QueryDone /\ call.names # <<>>) =>
        \A i \in Yielded :
            Later(i) # i =>
                LET alone == for_cursor(call.fields, call.paths,
                                        <<call.docs[Later(i)]>>)
                    rows  == { r \in 1..Len(query_results.rows) :
                                  query_results.rows[r].id = call.docs[i].id }
                IN  /\ Cardinality(rows) = 1
                    /\ \A r \in rows :
                          query_results.rows[r].cells = alone.rows[1].cells

\* The cursor yielded d1 twice; the earlier version has a value at a.b.0.c and
\* the later has none.
C19_Witness ==
    /\ QueryDone
    /\ call.docs = <<Doc("d1", TreeOne), Doc("d1", TreeTwo)>>
    /\ Path_a_b_0_c \in Range(call.paths)
    /\ Len(query_results.rows) = 1
    /\ query_results.rows[1].cells["n1"] = NoneNode

\* C20: the columns of the table a query returns are the requested names, each
\* once, whatever other names the field dict holds.
C20_ColumnsAreRequestedNames ==
    QueryDone =>
        /\ Range(query_results.columns) = Range(call.names)
        /\ Cardinality(Range(query_results.columns)) = Len(query_results.columns)

\* The path the field dict of the last query holds for a name.
PathFor(n) == get_path(call.fields, <<n>>).v[1]

\* C21: in the table a query returns, for every document yielded (the later
\* one where two have the same id) and every requested name, the cell of
\* the document's row in the name's column holds the value found in the document
\* at the name's path, also for each of two names with the same path.
C21_CellHoldsValueAtPath ==
    QueryDone =>
        \A i \in Yielded : \A k \in 1..Len(call.names) :
            /\ \E r \in 1..Len(query_results.rows) :
                  query_results.rows[r].id = call.docs[i].id
            /\ \A r \in 1..Len(query_results.rows) :
                  query_results.rows[r].id = call.docs[i].id =>
                      query_results.rows[r].cells[call.names[k]]
                          = extract(call.docs[Later(i)].tree, PathFor(call.names[k]))

----------------------------------------------------------------------------
(* Names and paths (section 4.1) *)

\* The names and the paths of the field dict the last lookup was made in.
RegisteredNames == { lookup.fields[j][1] : j \in 1..Len(lookup.fields) }
RegisteredPaths == { lookup.fields[j][2] : j \in 1..Len(lookup.fields) }

\* The names of that field dict with the path p, in the order of the dict.
NamesOf(p) ==
    LET F[n \in 0..Len(lookup.fields)] ==
            IF n = 0 THEN <<>>
            ELSE IF lookup.fields[n][2] = p
                 THEN Append(F[n - 1], lookup.fields[n][1]) ELSE F[n - 1]
    IN  F[Len(lookup.fields)]

\* C22: get_path asked for a name the field dict does not hold, and
\* get_field_name asked for a path it does not hold, raise and return nothing,
\* for one name or path and for a list with at least one such entry.
C22_UnregisteredRaises ==
    /\ lookup.op = "get_path" =>
          ((\E i \in 1..Len(lookup.arg) : lookup.arg[i] \notin RegisteredNames)
              => lookup.exc # "none")
    /\ lookup.op = "get_field_name" =>
          ((\E i \in 1..Len(lookup.arg) : lookup.arg[i] \notin RegisteredPaths)
              => lookup.exc # "none")

\* C23: where several names of the field dict have the path p,
\* get_field_name([p]) returns all of them and get_field_name(p) only the first
\* of them in the order of the dict.
C23_AllNamesOrFirstName ==
    (lookup.op = "get_field_name" /\ Len(lookup.arg) = 1
        /\ Len(NamesOf(lookup.arg[1])) > 1) =>
            /\ lookup.exc = "none"
            /\ lookup.form = "list" => lookup.v = NamesOf(lookup.arg[1])
            /\ lookup.form = "str" => lookup.v = <<NamesOf(lookup.arg[1])[1]>>

\* get_field_name("g") was called on a field dict in which n1 and n3 have the
\* path g, and gave n1.
C23_Witness ==
    /\ lookup.op = "get_field_name" /\ lookup.form = "str"
    /\ lookup.arg = <<Path_g>>
    /\ NamesOf(Path_g) = <<"n1", "n3">>
    /\ lookup.v = <<"n1">>

----------------------------------------------------------------------------
(* The criterion codec (section 4.5) *)

Primitives == {"str", "int", "float", "bool"}

\* C24: for every criterion name and every value that is a str, an int, a
\* float or a bool, decoding the encoded pair returns the same name and an equal
\* value of the same kind, also where the name or a str value holds "__",
\* "CRITERION", "VALUE" or "TYPE".
C24_DecodeInvertsEncode ==
    (chip.pc = "clicked" /\ chip.value.kind \in Primitives) =>
        /\ chip.out.exc = "none"
        /\ chip.out.criterion_name = chip.name
        /\ chip.out.criterion_value = chip.value

\* C25: decoding what encode made of a value that is no str, int, float or
\* bool (None, a list) raises and returns no pair.
C25_OtherTypeRaises ==
    (chip.pc = "clicked" /\ chip.value.kind \notin Primitives) =>
        chip.out.exc # "none"

----------------------------------------------------------------------------
(* The presentation layer (sections 2 and 6) *)

\* C26: the click on the chip of the value v of the field f strikes v from the
\* value list of f and leaves every other value of f, every other key's value
\* list and the row_index list as they were.
C26_ChipRemovalStrikesOneValue ==
    [][\A c \in Chips(Current) :
          (/\ c[1] # "row_index"
           /\ last'.op = "SelectedCriteria"
           /\ last'.arg = Dict1("value", ChipInfo(c))
           /\ last'.exc = "none")
          => /\ DOMAIN filter_criteria' = DOMAIN filter_criteria
             /\ \A k \in DOMAIN filter_criteria :
                   filter_criteria'[k] =
                       IF k = c[1] THEN list_remove(filter_criteria[k], c[2]).v
                       ELSE filter_criteria[k]]_vars

\* The events of claim C27.
Handled == {"ResetButton", "FilterChecklist", "DataFigure", "SelectedCriteria"}

data_table(s) ==
    [filter_criteria |-> filter_criteria, visible |-> get_selected_rows(Current)]

\* C28: an event handled for one browser session leaves the criteria and the
\* visible rows of every other session as they were.
C28_SessionsAreIsolated ==
    [][\A s \in sessions : last'.session # s => data_table(s)' = data_table(s)]_vars

\* C29: the criteria change only in a step of one of the five mutators; a
\* mutator leaves the dict a caller passed earlier, and its lists, as they
\* were; and a change the caller makes to the dict get_filter_criteria
\* returned leaves the criteria of the engine as they were.
C29_CriteriaOwnedByEngine ==
    [][/\ filter_criteria' # filter_criteria => last'.op \in Mutators
       /\ (last'.op \in Mutators /\ heap.arg # 0 /\ heap'.arg = heap.arg)
             => Value(heap', heap.arg) = Value(heap, heap.arg)
       /\ (last'.op \in {"list.remove", "dict.setitem"} /\ heap.got # 0)
             => Value(heap', heap'.self) = Value(heap, heap.self)]_vars

----------------------------------------------------------------------------
(* The table (section 3) *)

\* C30: every call of set_filter, update_filter, clear_filter, select_rows and
\* undo_row_selection, each with the apply_filter it ends in, leaves the rows
\* of the table, their order, the data columns and every data cell as they
\* were, and keeps one selectionState flag per row.
C30_TableIsPureData ==
    [][last'.op \in Mutators =>
          /\ df' = df
          /\ DOMAIN selectionState' = DOMAIN df]_vars

\* A call has returned that took the flag from a row of the table and left
\* it to another.
C30_Witness ==
    /\ last.op \in Mutators /\ Returned
    /\ \E i \in Rows : ~selectionState[i]
    /\ \E i \in Rows : selectionState[i]

----------------------------------------------------------------------------
(* The reserved column (section 3) *)

\* What the query returned for the table, before the table was made of it.
Queried == for_cursor(call.fields, call.paths, call.docs)

\* C31: once the table is made, every column the query built holds in every
\* row the value the query put there, and is a column of the visible rows.
C31_DataColumnsAreKept ==
    call.pc = "table" =>
        \A c \in Range(Queried.columns) :
            /\ c \in Range(frame_get_selected_rows(query_results).columns)
            /\ \A i \in 1..Len(Queried.rows) :
                  query_results.rows[i].cells[c] = Queried.rows[i].cells[c]

----------------------------------------------------------------------------
(* Callbacks handled at overlapping times (section 5) *)

\* C32: when the server has handled callbacks at overlapping times and none
\* is running any more, the selectionState of every row is the filter
\* predicate of the row under the filter criteria the engine holds.
C32_OperationsTakeEffectWhole ==
    (/\ last.op \in {"ResetButton", "FilterChecklist", "DataFigure"}
     /\ \A t \in 1..MaxThreads : threads[t].pc = "idle")
        => selectionState = FilterPredicate(filter_criteria)

----------------------------------------------------------------------------
(* A call that raises (section 7) *)

\* C33: a call of update_filter, select_rows or set_filter that raises leaves
\* the filter criteria and the selectionState column as they were before the
\* call, and the call that follows it, if it names columns of the table only,
\* does not raise.
C33_RaiseLeavesStateAsBefore ==
    [][/\ (last'.op \in {"update_filter", "select_rows", "set_filter"}
            /\ last'.exc # "none")
           => /\ filter_criteria' = filter_criteria
              /\ selectionState' = selectionState
       /\ (/\ last.op \in {"update_filter", "select_rows", "set_filter"}
           /\ last.exc # "none"
           /\ last'.op \in {"update_filter", "select_rows", "set_filter"}
           /\ DOMAIN last'.arg \subseteq Columns \cup {"row_index"})
           => last'.exc = "none"]_vars

----------------------------------------------------------------------------
(* A row selection with no row (section 4.4) *)

\* C34: after a select_rows with an empty list of ids that has returned, the
\* visible rows are the rows that meet the criteria on the fields, and they
\* are the rows undo_row_selection would have left visible from the same
\* state, whether or not a row selection was in force before.
C34_EmptyRowSelectionHidesNothing ==
    [][(/\ last'.op = "select_rows"
        /\ last'.arg = Dict1("row_index", <<>>)
        /\ last'.exc = "none")
          => /\ undo_row_selection(Current).exc = "none"
             /\ get_selected_rows(Engine(filter_criteria', selectionState', "none"))
                   = get_selected_rows(undo_row_selection(Current))
             /\ \A i \in 1..Len(df) :
                   selectionState'[i] =
                     (\A k \in (DOMAIN filter_criteria) \ {"row_index"} :
                         Len(filter_criteria[k]) > 0 =>
                             is_value_in_criteria(df[i].cells[k], filter_criteria[k]))]_vars

\* An empty row selection has replaced one that hid rows, under a criterion
\* on a field that hides a row and shows another.
C34_Witness ==
    /\ last.op = "select_rows"
    /\ last.arg = Dict1("row_index", <<>>)
    /\ last.exc = "none"
    /\ last.had
    /\ \E k \in (DOMAIN filter_criteria) \ {"row_index"} : filter_criteria[k] # <<>>
    /\ \E i, j \in 1..Len(df) : selectionState[i] /\ ~selectionState[j]

----------------------------------------------------------------------------
(* update_filter on two fields (section 4.4) *)

\* The engine after update_filter({f: V}) and then update_filter({g: W}); the
\* second call is made whether or not the first has raised.
Both(e, f, V, g, W) ==
    update_filter([update_filter(e, Dict1(f, V)) EXCEPT !.exc = "none"], Dict1(g, W))

----------------------------------------------------------------------------
(* Reading the engine, and the checklists (section 6) *)

\* The steps that only read the engine: the two getters, and a callback that
\* makes no call on the engine and rebuilds the elements and the chips.
Reads ==
    \/ last'.op \in {"get_selected_rows", "get_filter_criteria_values"}
    \/ last'.op = "switch" /\ last'.calls = <<>> /\ last'.exc = "none"

\* C36: a step of get_selected_rows, of get_filter_criteria_values or of the
\* rebuild of the elements and chips leaves the criteria and every cell of
\* the table, the selectionState column included, as they were, and every
\* update_filter of a checklist's field and every select_rows gives on the
\* engine after it what it gave on the engine before it; the
\* rebuild that ends the callback of an event leaves the rows of the table,
\* and their number of flags, as they were.
C36_ReadsChangeNothing ==
    [][/\ df' = df
       /\ Len(selectionState') = Len(df)
       /\ Reads =>
             /\ filter_criteria' = filter_criteria
             /\ selectionState' = selectionState
             /\ \A f \in ChecklistFields : \A v \in ValueLists(f) :
                   update_filter(Engine(filter_criteria', selectionState', "none"),
                                 Dict1(f, v))
                       = update_filter(Current, Dict1(f, v))
             /\ \A ids \in ValueLists("row_index") :
                   select_rows(Engine(filter_criteria', selectionState', "none"), ids)
                       = select_rows(Current, ids)]_vars

\* get_selected_rows has returned some rows and left others out.
C36_Witness ==
    /\ last.op = "get_selected_rows"
    /\ returned # <<>>
    /\ Len(returned) < Len(df)
    /\ filter_criteria # EmptyDict

\* C37: after an event whose callback has updated the presenter, the selected
\* options of every checklist are the value list the criteria hold for the
\* checklist's field, or none where the field has no entry; after the reset
\* button no checklist has a selected option.
C37_ChecklistsShowCriteria ==
    (last.op \in {"ResetButton", "FilterChecklist", "DataFigure", "SelectedCriteria"}
        /\ last.exc = "none")
      => /\ \A f \in ChecklistFields :
               ui_elements.checklists[f] =
                   IF f \in DOMAIN filter_criteria THEN filter_criteria[f] ELSE <<>>
         /\ last.op = "ResetButton" =>
               \A f \in ChecklistFields : ui_elements.checklists[f] = <<>>

\* After an event, one checklist shows options of its entry and the other,
\* whose field has no entry, shows none.
C37_Witness ==
    /\ last.op \in {"FilterChecklist", "DataFigure", "SelectedCriteria"}
    /\ last.exc = "none"
    /\ \E f, g \in ChecklistFields :
          /\ f \in DOMAIN filter_criteria
          /\ ui_elements.checklists[f] # <<>>
          /\ g \notin DOMAIN filter_criteria
          /\ ui_elements.checklists[g] = <<>>

----------------------------------------------------------------------------
(* The builder (section 6) *)

\* The indices of the files update_database could load.
Loaded == { i \in 1..Len(builder.input_files) : builder.input_files[i].ok }

\* The record of the last loaded file that carries the id.
LastRecord(id) ==
    builder.input_files[
        CHOOSE i \in Loaded :
            /\ builder.input_files[i].doc.id = id
            /\ \A j \in Loaded : builder.input_files[j].doc.id = id => j <= i].doc

\* C38: when update_database has finished, the collection holds for every
\* record id it processed one document of that id, the record of the last
\* file processed for the id; and a run that follows a finished run on the
\* same files leaves the documents of the collection as they were and counts
\* every record as modified and none as new.
C38_UpdateReplacesRecords ==
    builder.pc = "done" =>
        /\ \A i \in Loaded :
              LET id == builder.input_files[i].doc.id
              IN  /\ Cardinality({ k \in 1..Len(collection) : collection[k].id = id }) = 1
                  /\ \A k \in 1..Len(collection) :
                        collection[k].id = id => collection[k] = LastRecord(id)
        /\ builder.again =>
              /\ Range(collection) = Range(builder.before)
              /\ builder.n_records_modified = Cardinality(Loaded)
              /\ builder.n_new_records = 0

\* A second run has finished on two files that carry one id with different
\* contents, in a collection that holds a further document.
C38_Witness ==
    /\ builder.pc = "done"
    /\ builder.again
    /\ Cardinality(Loaded) = 2
    /\ builder.input_files[1].doc.id = builder.input_files[2].doc.id
    /\ builder.input_files[1].doc # builder.input_files[2].doc
    /\ builder.n_records_modified = 2
    /\ Len(collection) = 2

\* The loop of update_database is between its first file and its report, or
\* has ended with an exception.
Running == builder.pc \in {"file", "delete", "insert", "failed"}

\* C39: a query a viewer makes while update_database runs, or after it has
\* ended with the exception of an insert, returns a row for every record the
\* collection held when the run began.
C39_ViewerSeesEveryRecord ==
    [][(/\ Running
        /\ builder' = builder
        /\ call'.pc = "done")
          => \A k \in 1..Len(builder.before) :
                \E r \in 1..Len(query_results'.rows) :
                    query_results'.rows[r].id = builder.before[k].id]_vars

====
